---- MODULE Spec2Model ----
(***************************************************************************)
(* GW2 farming tracker: the application state machine (models.Model), its  *)
(* copy-on-mutate persistence, and the guest-mode trio scheduler           *)
(* (controllers.TrioGuest) driven by the Tk host loop.                     *)
(***************************************************************************)
EXTENDS Bags, FiniteSets, Integers, Sequences, TLC

(***************************************************************************)
(* models.States (an IntEnum, so states are ordered integers)              *)
(***************************************************************************)
STARTED == 0
KEY == 1
SNAP_START == 2
SNAP_END == 3
REPORT == 4

States == {STARTED, KEY, SNAP_START, SNAP_END, REPORT}

(***************************************************************************)
(* Bounds and input domains                                                *)
(***************************************************************************)
\* number of tasks spawned on behalf of the Model and the view refresh (saves
\* and report displays) that may be pending at once
MaxSaves == 2

\* API keys the user may enter
Keys == {"k1", "k2"}

\* datetimes of the snapshots handed to the Model
Times == {1, 2}

\* None, for each optional field of the Model
NoKey == "None"
NoSnapshot == [key |-> NoKey, datetime |-> 0]
NoDiff == [start |-> 0, end |-> 0]
NoReport == [start_date |-> 0, end_date |-> 0, inv_diff |-> NoDiff]

\* models.Snapshot: the account key it was fetched with and when; its
\* inventory and wallet are determined by the account and the instant
Snapshots == [key : Keys, datetime : Times]

\* end.inventory - start.inventory (and the same for the wallets): the
\* difference is determined by the two snapshots, named by their datetimes
Diff(start, end) == [start |-> start.datetime, end |-> end.datetime]

\* models.Report: the dates it shows and the differences it holds
Reports == {[start_date |-> 1, end_date |-> 2,
             inv_diff |-> [start |-> 1, end |-> 2]]}

(***************************************************************************)
(* models.Model: the fields of the aggregate as one record                 *)
(***************************************************************************)
FreshModel ==
    [state |-> STARTED, current_key |-> NoKey, start_snapshot |-> NoSnapshot,
     end_snapshot |-> NoSnapshot, report |-> NoReport]

\* The result of a call: the error it raised ("None" when it returned) and
\* the Model's fields when the call ends
Returned(m) == [err |-> "None", model |-> m]
Raised(e, m) == [err |-> e, model |-> m]

\* Model.set_key without the `if key != self.current_key` test
set_key_always(m, key) ==
    Returned([m EXCEPT !.state = KEY, !.current_key = key,
                       !.start_snapshot = NoSnapshot,
                       !.end_snapshot = NoSnapshot, !.report = NoReport])

\* Model.set_key that keeps the snapshots and the report of the previous key
set_key_keeps_data(m, key) ==
    IF key # m.current_key
    THEN Returned([m EXCEPT !.state = KEY, !.current_key = key])
    ELSE Returned(m)

set_key(m, key) ==
    IF key # m.current_key
    THEN Returned([m EXCEPT !.state = KEY, !.current_key = key,
                            !.start_snapshot = NoSnapshot,
                            !.end_snapshot = NoSnapshot, !.report = NoReport])
    ELSE Returned(m)

\* Model.set_start_snapshot without the key comparison
set_start_snapshot_any_key(m, snapshot) ==
    IF m.state < KEY
    THEN Raised("ValueError", m)
    ELSE Returned([m EXCEPT !.start_snapshot = snapshot, !.state = SNAP_START,
                            !.end_snapshot = NoSnapshot, !.report = NoReport])

\* Model.set_start_snapshot that leaves the end snapshot and the report
set_start_snapshot_keeps_end(m, snapshot) ==
    IF m.state < KEY
    THEN Raised("ValueError", m)
    ELSE IF m.current_key # snapshot.key
    THEN Raised("ValueError", m)
    ELSE Returned([m EXCEPT !.start_snapshot = snapshot, !.state = SNAP_START])

set_start_snapshot(m, snapshot) ==
    IF m.state < KEY
    THEN Raised("ValueError", m)
    ELSE IF m.current_key # snapshot.key
    THEN Raised("ValueError", m)
    ELSE Returned([m EXCEPT !.start_snapshot = snapshot, !.state = SNAP_START,
                            !.end_snapshot = NoSnapshot, !.report = NoReport])

\* Model.set_end_snapshot without the key comparison
set_end_snapshot_any_key(m, snapshot) ==
    IF m.state < SNAP_START
    THEN Raised("ValueError", m)
    ELSE Returned([m EXCEPT !.end_snapshot = snapshot, !.state = SNAP_END])

\* Model.set_end_snapshot testing against States.KEY instead of SNAP_START
set_end_snapshot_low_guard(m, snapshot) ==
    IF m.state < KEY
    THEN Raised("ValueError", m)
    ELSE IF m.current_key # snapshot.key
    THEN Raised("ValueError", m)
    ELSE Returned([m EXCEPT !.end_snapshot = snapshot, !.state = SNAP_END])

set_end_snapshot(m, snapshot) ==
    IF m.state < SNAP_START
    THEN Raised("ValueError", m)
    ELSE IF m.current_key # snapshot.key
    THEN Raised("ValueError", m)
    ELSE Returned([m EXCEPT !.end_snapshot = snapshot, !.state = SNAP_END])

\* Model.set_report without the test of the state
set_report_unguarded(m, report) ==
    Returned([m EXCEPT !.report = report, !.state = REPORT])

\* Model.set_report testing against States.SNAP_START instead of SNAP_END
set_report_low_guard(m, report) ==
    IF m.state < SNAP_START
    THEN Raised("ValueError", m)
    ELSE Returned([m EXCEPT !.report = report, !.state = REPORT])

set_report(m, report) ==
    IF m.state < SNAP_END
    THEN Raised("ValueError", m)
    ELSE Returned([m EXCEPT !.report = report, !.state = REPORT])

(***************************************************************************)
(* State                                                                   *)
(***************************************************************************)
VARIABLES
    model,      \* the live models.Model held by the Controller
    file,       \* content of Model.filepath: << >> while absent, else <<fields>>
    tasks,      \* bag of the tasks running in TrioGuest.nursery
    guest,      \* controllers.TrioGuest and its guest run
    done_calls, \* number of invocations of host.done_callback
    view,       \* views.tkview.TkView: its controls and its window
    clock,      \* the time now, which stamps a fetched Snapshot
    last,       \* what the latest step did
    gathering,  \* a call of utils.gather: its arguments, its locals, its end
    data        \* values of the models module under computation

vars ==
    <<model, file, tasks, guest, done_calls, view, clock, last, gathering,
      data>>

\* no value of the models module is followed
NoData == [pc |-> "None"]

\* no call of utils.gather is followed
NoGather ==
    [tasks |-> << >>, results |-> << >>, pending |-> {}, order |-> << >>,
     failed |-> {}, error |-> 0, cancelled |-> {}, pc |-> "None",
     out |-> << >>]

\* A task running under TrioGuest._wrap: the coroutine it runs, where it
\* stands, and its local variables; `dirty` records that another task has
\* changed the Model since this one was spawned
Task(kind, pc, key, copy, inv_diff) ==
    [kind |-> kind, pc |-> pc, key |-> key, copy |-> copy,
     inv_diff |-> inv_diff, grace |-> FALSE, dirty |-> FALSE]

\* the tasks the Model and the view refresh spawn (saves, report display),
\* and the tasks the user's intents spawn
Helpers == {"save", "display_report"}
Count(running, kinds) ==
    BagCardinality([t \in {u \in BagToSet(running) : u.kind \in kinds}
                        |-> CopiesIn(t, running)])

\* attr.evolve(self): a new Model instance holding the same field values
evolve(m) == m

\* the coroutine copy.save handed to start_soon: a bound method of the copy
SaveTask(copy) == Task("save", "start", NoKey, copy, NoDiff)

\* Model.to_file serializing the live Model instead of the instance the
\* coroutine is bound to
to_file_live(task) == <<model>>

\* Model.to_file of a save task: serializes the fields of `self`, the
\* instance the coroutine is bound to
to_file(task) == <<task.copy>>

\* TrioGuest.start_soon: nursery.start_soon(self._wrap, task, *args)
start_soon(running, task) == running (+) SetToBag({task})

\* What the latest step did: the Model operation called (or another event),
\* its arguments, whether it was given a trio_guest, the error it raised,
\* the lifecycle state before it, and how the stepping task ended
Event(op, key, snapshot, report, given, err, pre, task, exit) ==
    [op |-> op, key |-> key, snapshot |-> snapshot, report |-> report,
     trio_guest |-> given, err |-> err, pre |-> pre, task |-> task,
     exit |-> exit]

NoEvent == Event("None", NoKey, NoSnapshot, NoReport, FALSE, "None", STARTED,
                 "None", "None")

\* the save scheduled by a transition that returned and was given a trio_guest
Scheduled(res, given, running) ==
    IF res.err = "None" /\ given
    THEN start_soon(running, SaveTask(evolve(res.model)))
    ELSE running

PendingSaves == Count(tasks, Helpers)

(***************************************************************************)
(* The Model driven through its public operations by a caller that passes *)
(* a started TrioGuest (or none); the scheduled saves stay pending         *)
(***************************************************************************)
RunningGuest ==
    [host |-> "host", runs |-> 1, started |-> TRUE, cancel_called |-> FALSE,
     crashed |-> "None", rescued |-> FALSE, finished |-> FALSE]

ReadyView ==
    [key_input |-> TRUE, button_start |-> FALSE, button_stop |-> FALSE,
     message |-> "black", ui_started |-> FALSE, destroyed |-> FALSE]

InitModel ==
    /\ model = FreshModel
    /\ file = << >>
    /\ tasks = EmptyBag
    /\ guest = RunningGuest
    /\ done_calls = 0
    /\ view = ReadyView
    /\ clock = 0
    /\ last = NoEvent
    /\ gathering = NoGather
    /\ data = NoData

Call(res, given, ev) ==
    /\ given => PendingSaves < MaxSaves
    /\ model' = res.model
    /\ tasks' = Scheduled(res, given, tasks)
    /\ last' = ev
    /\ UNCHANGED <<data, gathering, file, guest, done_calls, view, clock>>

CallSetKey(key, given) ==
    LET res == set_key(model, key)
    IN Call(res, given,
            Event("set_key", key, NoSnapshot, NoReport, given, res.err,
                  model.state, "None", "None"))

CallSetStartSnapshot(snapshot, given) ==
    LET res == set_start_snapshot(model, snapshot)
    IN Call(res, given,
            Event("set_start_snapshot", NoKey, snapshot, NoReport, given,
                  res.err, model.state, "None", "None"))

CallSetEndSnapshot(snapshot, given) ==
    LET res == set_end_snapshot(model, snapshot)
    IN Call(res, given,
            Event("set_end_snapshot", NoKey, snapshot, NoReport, given,
                  res.err, model.state, "None", "None"))

CallSetReport(report, given) ==
    LET res == set_report(model, report)
    IN Call(res, given,
            Event("set_report", NoKey, NoSnapshot, report, given, res.err,
                  model.state, "None", "None"))

NextModel ==
    \/ \E key \in Keys, given \in BOOLEAN : CallSetKey(key, given)
    \/ \E snapshot \in Snapshots, given \in BOOLEAN :
            CallSetStartSnapshot(snapshot, given)
    \/ \E snapshot \in Snapshots, given \in BOOLEAN :
            CallSetEndSnapshot(snapshot, given)
    \/ \E report \in Reports, given \in BOOLEAN : CallSetReport(report, given)

SpecModel == InitModel /\ [][NextModel]_vars


(***************************************************************************)
(* The application: the Tk host loop, the guest trio run, and the tasks    *)
(* the Controller spawns                                                   *)
(***************************************************************************)
\* number of intent tasks (use key, start snapshot, compute gains) in flight
MaxTasks == 2

\* the last tick of the clock: every intent of the user and every snapshot the
\* API returns takes one tick
MaxTime == 6

Intents == {"validate_key", "_get_start_snapshot", "_compute_gains"}

\* the coroutine view.display_report with the single argument
\* Controller._update_view passes
DisplayTask == Task("display_report", "start", NoKey, FreshModel, NoDiff)

\* Controller._update_view: the controls follow the Model's state, the label
\* shows the state's message (TkView.display_message: in black), and a held
\* report is displayed by a new task
_update_view(m, v, running) ==
    [view |-> [v EXCEPT !.button_start = IF m.state >= KEY THEN TRUE ELSE @,
                        !.button_stop =
                            IF m.state >= SNAP_START THEN TRUE ELSE @,
                        !.message = "black"],
     tasks |-> IF m.state >= REPORT /\ m.report # NoReport
               THEN start_soon(running, DisplayTask)
               ELSE running]

\* Controller._update_view when the top-level nursery is closed: start_soon
\* raises before the message is displayed
_update_view_closed(m, v) ==
    [v EXCEPT !.button_start = IF m.state >= KEY THEN TRUE ELSE @,
              !.button_stop = IF m.state >= SNAP_START THEN TRUE ELSE @]

\* TrioGuest._wrap without its try/except
_wrap_unguarded(g, err) ==
    IF err \in {"None", "Cancelled"}
    THEN g
    ELSE [g EXCEPT !.crashed = err, !.cancel_called = TRUE]

\* TrioGuest._wrap when the wrapped task ends raising err ("None" when it
\* returns): `except Exception` logs and swallows every error but
\* trio.Cancelled, a BaseException, which the cancelled top-level scope
\* absorbs; an error that escaped would crash the top-level nursery
_wrap(g, err) ==
    IF err = "None"
    THEN g
    ELSE IF err # "Cancelled"
    THEN [g EXCEPT !.rescued = TRUE]
    ELSE g

Init ==
    /\ model = FreshModel
    /\ file = << >>
    /\ tasks = EmptyBag
    /\ guest = [host |-> "None", runs |-> 0, started |-> FALSE,
                cancel_called |-> FALSE, crashed |-> "None",
                rescued |-> FALSE, finished |-> FALSE]
    /\ done_calls = 0
    /\ view = ReadyView
    /\ clock = 0
    /\ last = NoEvent
    /\ gathering = NoGather
    /\ data = NoData

\* an event of the host loop or a step of a task that calls no Model operation
Did(op, key, err, task, exit) ==
    Event(op, key, NoSnapshot, NoReport, FALSE, err, model.state, task, exit)

(***************************************************************************)
(* Host side: GW2Tracker.start and the Tk callbacks                        *)
(***************************************************************************)
\* TrioGuest.run_in: the host is recorded and trio.lowlevel.start_guest_run
\* starts one more guest run of _main
run_in(g) == [g EXCEPT !.host = "host", !.runs = @ + 1]

\* Controller.start_trio_guest without its check of trio_guest.host
start_trio_guest_unchecked(g) == [guest |-> run_in(g), err |-> "None"]

\* Controller.start_trio_guest: refuses when a host is already set
start_trio_guest(g) ==
    IF g.host # "None"
    THEN [guest |-> g, err |-> "RuntimeError"]
    ELSE [guest |-> run_in(g), err |-> "None"]

\* GW2Tracker.start, called once: Controller.start_trio_guest(host), then
\* the Tk mainloop
start ==
    /\ guest.host = "None"
    /\ LET res == start_trio_guest(guest)
       IN /\ guest' = res.guest
          /\ last' = Did("start_trio_guest", NoKey, res.err, "None", "None")
    /\ UNCHANGED <<data, gathering, model, file, tasks, done_calls, view, clock>>

\* the Tk mainloop is processing events
TkRunning == guest.host # "None" /\ ~view.destroyed

\* the top-level nursery has no child left (the sleep_forever task ends only
\* when the scope is cancelled): trio closes it to new arrivals
Closed == guest.started /\ tasks = EmptyBag

\* TrioGuest.start_soon finding a nursery before _main has run
SpawnErr_lenient == IF Closed THEN "RuntimeError" ELSE "None"

\* spawning from a Tk callback: start_soon reads TrioGuest.nursery, which
\* exists once _main has run, and trio refuses a closed nursery
SpawnErr ==
    IF ~guest.started THEN "AttributeError"
    ELSE IF Closed THEN "RuntimeError" ELSE "None"

CanSpawn(kinds, limit) == SpawnErr = "None" => Count(tasks, kinds) < limit

Spawn(task) == IF SpawnErr = "None" THEN start_soon(tasks, task) ELSE tasks

\* Controller.on_ui_start, 500 ms after TkView.start_ui
on_ui_start ==
    /\ TkRunning
    /\ ~view.ui_started
    /\ LET upd == _update_view(model, view, tasks)
       IN IF upd.tasks # tasks /\ SpawnErr # "None"
          THEN /\ view' = [_update_view_closed(model, view)
                                EXCEPT !.ui_started = TRUE]
               /\ tasks' = tasks
               /\ last' = Did("on_ui_start", NoKey, SpawnErr, "None", "None")
          ELSE /\ Count(upd.tasks, Helpers) <= MaxSaves
               /\ view' = [upd.view EXCEPT !.ui_started = TRUE]
               /\ tasks' = upd.tasks
               /\ last' = Did("on_ui_start", NoKey, "None", "None", "None")
    /\ UNCHANGED <<data, gathering, model, file, guest, done_calls, clock>>

\* Controller.use_key
use_key(key) ==
    /\ CanSpawn(Intents, MaxTasks)
    /\ tasks' = Spawn(Task("validate_key", "start", key, FreshModel, NoDiff))
    /\ last' = Did("use_key", key, SpawnErr, "None", "None")

\* Controller.get_start_snapshot without its check of the Model's state
get_start_snapshot_ungated(v1) ==
    /\ CanSpawn(Intents, MaxTasks)
    /\ view' = v1
    /\ tasks' = Spawn(Task("_get_start_snapshot", "start", NoKey, FreshModel,
                           NoDiff))
    /\ last' = Did("get_start_snapshot", NoKey, SpawnErr, "None", "None")

\* Controller.get_start_snapshot, called while the view is v1
get_start_snapshot(v1) ==
    IF model.state < KEY
    THEN LET upd == _update_view(model, v1, tasks)
         IN /\ view' = upd.view
            /\ tasks' = upd.tasks
            /\ last' = Did("get_start_snapshot", NoKey, "None", "None",
                           "None")
    ELSE /\ CanSpawn(Intents, MaxTasks)
         /\ view' = v1
         /\ tasks' = Spawn(Task("_get_start_snapshot", "start", NoKey,
                                FreshModel, NoDiff))
         /\ last' = Did("get_start_snapshot", NoKey, SpawnErr, "None",
                        "None")

\* Controller.compute_gains, called while the view is v1
compute_gains(v1) ==
    IF model.state < SNAP_START
    THEN LET upd == _update_view(model, v1, tasks)
         IN /\ view' = upd.view
            /\ tasks' = upd.tasks
            /\ last' = Did("compute_gains", NoKey, "None", "None", "None")
    ELSE /\ CanSpawn(Intents, MaxTasks)
         /\ view' = v1
         /\ tasks' = Spawn(Task("_compute_gains", "start", NoKey, FreshModel,
                                NoDiff))
         /\ last' = Did("compute_gains", NoKey, SpawnErr, "None", "None")

\* TkView._on_button_key without `button.configure(state="disabled")`
_on_button_key_keeps_input(key) ==
    /\ TkRunning
    /\ clock < MaxTime
    /\ view.key_input
    /\ view' = [view EXCEPT !.message = "black"]
    /\ use_key(key)
    /\ clock' = clock + 1
    /\ UNCHANGED <<data, gathering, model, file, guest, done_calls>>

\* TkView._on_button_key: the key input is disabled, then Controller.use_key
_on_button_key(key) ==
    /\ TkRunning
    /\ clock < MaxTime
    /\ view.key_input
    /\ view' = [view EXCEPT !.message = "black",
                            !.key_input = FALSE]
    /\ use_key(key)
    /\ clock' = clock + 1
    /\ UNCHANGED <<data, gathering, model, file, guest, done_calls>>

\* TkView._on_get_start_snapshot: the button is disabled, then
\* Controller.get_start_snapshot
_on_get_start_snapshot ==
    /\ TkRunning
    /\ clock < MaxTime
    /\ view.button_start
    /\ get_start_snapshot([view EXCEPT !.message = "black",
                                       !.button_start = FALSE])
    /\ clock' = clock + 1
    /\ UNCHANGED <<data, gathering, model, file, guest, done_calls>>

\* TkView._on_compute_gains: the button is disabled, then
\* Controller.compute_gains
_on_compute_gains ==
    /\ TkRunning
    /\ clock < MaxTime
    /\ view.button_stop
    /\ compute_gains([view EXCEPT !.message = "black",
                                  !.button_stop = FALSE])
    /\ clock' = clock + 1
    /\ UNCHANGED <<data, gathering, model, file, guest, done_calls>>

\* TkView._on_close, Controller.close_app: cancels the top-level nursery's
\* scope; TrioGuest.nursery is unset until _main has run
close_app ==
    /\ TkRunning
    /\ guest' = IF guest.started
                THEN [guest EXCEPT !.cancel_called = TRUE]
                ELSE guest
    /\ last' = Did("close_app", NoKey, SpawnErr, "None", "None")
    /\ UNCHANGED <<data, gathering, model, file, tasks, done_calls, view, clock>>

(***************************************************************************)
(* Guest side: TrioGuest._main and the tasks, one step per stretch of code *)
(* between two checkpoints                                                 *)
(***************************************************************************)
\* TrioGuest._main opening its nursery without giving it a child
_main_children_none(running) == running

\* the child TrioGuest._main gives its nursery: trio.sleep_forever, which
\* ends only by cancellation
_main_children(running) ==
    start_soon(running, Task("sleep_forever", "sleep", NoKey, FreshModel,
                             NoDiff))

\* TrioGuest._main up to the nursery's __aexit__: the nursery exists and
\* holds the sleep_forever task
_main ==
    /\ guest.host # "None"
    /\ ~guest.started
    /\ guest' = [guest EXCEPT !.started = TRUE]
    /\ tasks' = _main_children(tasks)
    /\ last' = Did("_main", NoKey, "None", "None", "None")
    /\ UNCHANGED <<data, gathering, model, file, done_calls, view, clock>>

Runnable(task) == guest.started /\ BagIn(task, tasks)

\* the task resumes with the result it awaited: always for its first stretch;
\* in a cancelled scope only if the result had arrived before the cancel,
\* which can happen once
Resumes(task) == task.pc = "start" \/ ~guest.cancel_called \/ ~task.grace

\* a cancel of the top-level scope that reaches no task
Cancellable_never(task) == FALSE

\* the task is at a checkpoint of a cancelled scope: trio.Cancelled is raised
Cancellable(task) == guest.cancel_called /\ task.pc # "start"

ExitOf(err) ==
    IF err = "None" THEN "returned"
    ELSE IF err = "Cancelled" THEN "cancelled" ELSE "raised"

\* the tasks that run beside the one taking a step that leaves the Model as
\* m2: the tasks of the user's intents learn that the Model was changed
Others(running, m2) ==
    IF m2 = model
    THEN running
    ELSE BagOfAll(LAMBDA t : IF t.kind \in {"validate_key",
                                            "_get_start_snapshot",
                                            "_compute_gains"}
                             THEN [t EXCEPT !.dirty = TRUE]
                             ELSE t,
                  running)

\* the task runs to its next checkpoint and waits there as `next`
Continue(task, next, m2, v2, running2, c2, ev) ==
    /\ Count(running2, Helpers) > Count(tasks, Helpers)
            => Count(running2, Helpers) <= MaxSaves
    /\ model' = m2
    /\ view' = v2
    /\ clock' = c2
    /\ tasks' = Others(running2 (-) SetToBag({task}), m2)
                    (+) SetToBag({[next EXCEPT !.grace = guest.cancel_called]})
    /\ last' = ev
    /\ UNCHANGED <<data, gathering, file, guest, done_calls>>

\* the task's coroutine ends, returning (err = "None") or raising err into
\* TrioGuest._wrap
End(task, err, m2, v2, running2, f2, c2, ev) ==
    /\ Count(running2, Helpers) > Count(tasks, Helpers)
            => Count(running2, Helpers) <= MaxSaves
    /\ model' = m2
    /\ view' = v2
    /\ file' = f2
    /\ clock' = c2
    /\ tasks' = Others(running2 (-) SetToBag({task}), m2)
    /\ guest' = _wrap(guest, err)
    /\ last' = ev
    /\ UNCHANGED <<data, gathering, done_calls>>

\* a remote step of the task raises and an error handler resets the Model
\* to the state that follows the key
Failed_rollback(task, out) ==
    End(task, out,
        [model EXCEPT !.state = KEY, !.start_snapshot = NoSnapshot,
                      !.end_snapshot = NoSnapshot, !.report = NoReport],
        view, tasks, file, clock,
        Did("None", task.key, out, task.kind, "raised"))

\* a remote step of the task raises (gw2_api.call_api: GW2APIError): the
\* Controller has no handler, the error leaves the coroutine
Failed(task, out) ==
    End(task, out, model, view, tasks, file, clock,
        Did("None", task.key, out, task.kind, "raised"))

\* a task other than validate_key is cancelled at its checkpoint
Cancelled(task) ==
    /\ Runnable(task)
    /\ task.kind \in {"sleep_forever", "_get_start_snapshot", "_compute_gains"}
    /\ Cancellable(task)
    /\ End(task, "Cancelled", model, view, tasks, file, clock,
           Did("None", NoKey, "Cancelled", task.kind, "cancelled"))

\* Model.save of a copy: no checkpoint, so _wrap(copy.save) is one step
save(task) ==
    /\ Runnable(task)
    /\ task.kind = "save"
    /\ End(task, "None", model, view, tasks, to_file(task), clock,
           Did("save", NoKey, "None", "save", "returned"))

\* _wrap(view.display_report, report): TkView.display_report(report, cache)
\* is called without its cache argument
display_report(task) ==
    /\ Runnable(task)
    /\ task.kind = "display_report"
    /\ End(task, "TypeError", model, view, tasks, file, clock,
           Did("display_report", NoKey, "TypeError", "display_report",
               "raised"))

\* TkView.display_error: the label shows the error, in red
display_error(v) == [v EXCEPT !.message = "red"]

\* Controller._use_key_callback without its last statement
enable_key_input_never(v) == v

\* TkView.enable_key_input
enable_key_input(v) == [v EXCEPT !.key_input = TRUE]

\* gw2_api.validate_key up to the request of get_key_permissions
validate_key_start(task) ==
    /\ Runnable(task)
    /\ task.kind = "validate_key"
    /\ task.pc = "start"
    /\ Continue(task, [task EXCEPT !.pc = "permissions"], model, view, tasks,
                clock, Did("None", task.key, "None", task.kind, "None"))

\* gw2_api.validate_key from the outcome of get_key_permissions, which
\* outcome.acapture captures whatever it is (trio.Cancelled included), and
\* Controller._use_key_callback
_use_key_callback(task, out) ==
    /\ Runnable(task)
    /\ task.kind = "validate_key"
    /\ task.pc = "permissions"
    /\ IF out = "Cancelled" THEN Cancellable(task) ELSE Resumes(task)
    /\ IF out = "Value"
       THEN LET res == set_key(model, task.key)
                upd == _update_view(res.model, view,
                                    Scheduled(res, TRUE, tasks))
            IN End(task, "None", res.model,
                   enable_key_input(upd.view), upd.tasks, file,
                   clock,
                   Event("set_key", task.key, NoSnapshot, NoReport, TRUE,
                         res.err, model.state, task.kind, "returned"))
       ELSE End(task, "None", model,
                enable_key_input(display_error(view)), tasks,
                file, clock,
                Did("display_error", task.key, out, task.kind, "returned"))

\* Controller._get_start_snapshot up to the request of gw2_api.get_snapshot
_get_start_snapshot_start(task) ==
    /\ Runnable(task)
    /\ task.kind = "_get_start_snapshot"
    /\ task.pc = "start"
    /\ IF model.current_key = NoKey
       THEN LET upd == _update_view(model, view, tasks)
            IN End(task, "None", model, upd.view, upd.tasks, file, clock,
                   Did("None", NoKey, "None", task.kind, "returned"))
       ELSE Continue(task,
                     [task EXCEPT !.pc = "snapshot", !.key = model.current_key],
                     model, view, tasks, clock,
                     Did("None", model.current_key, "None", task.kind, "None"))

\* Controller._get_start_snapshot from the outcome of gw2_api.get_snapshot
_get_start_snapshot(task, out) ==
    /\ Runnable(task)
    /\ task.kind = "_get_start_snapshot"
    /\ task.pc = "snapshot"
    /\ Resumes(task)
    /\ IF out = "Value"
       THEN /\ clock < MaxTime
            /\ LET snapshot == [key |-> task.key, datetime |-> clock + 1]
                   res == set_start_snapshot(model, snapshot)
                   upd == _update_view(res.model,
                                       [view EXCEPT !.button_start = TRUE],
                                       Scheduled(res, TRUE, tasks))
               IN IF res.err = "None"
                  THEN End(task, "None", res.model, upd.view, upd.tasks, file,
                           clock + 1,
                           Event("set_start_snapshot", NoKey, snapshot,
                                 NoReport, TRUE, res.err, model.state,
                                 task.kind, "returned"))
                  ELSE End(task, res.err, model, view, tasks, file, clock + 1,
                           Event("set_start_snapshot", NoKey, snapshot,
                                 NoReport, TRUE, res.err, model.state,
                                 task.kind, "raised"))
       ELSE Failed(task, out)

\* Controller._compute_gains up to the request of gw2_api.get_snapshot
_compute_gains_start(task) ==
    /\ Runnable(task)
    /\ task.kind = "_compute_gains"
    /\ task.pc = "start"
    /\ IF model.current_key = NoKey \/ model.start_snapshot = NoSnapshot
       THEN LET upd == _update_view(model, view, tasks)
            IN End(task, "None", model, upd.view, upd.tasks, file, clock,
                   Did("None", NoKey, "None", task.kind, "returned"))
       ELSE Continue(task,
                     [task EXCEPT !.pc = "snapshot", !.key = model.current_key],
                     model,
                     [view EXCEPT !.message = "black"],
                     tasks, clock,
                     Did("None", model.current_key, "None", task.kind, "None"))

\* Controller._compute_gains from the outcome of gw2_api.get_snapshot up to
\* the requests for the items' data and prices
_compute_gains_snapshot(task, out) ==
    /\ Runnable(task)
    /\ task.kind = "_compute_gains"
    /\ task.pc = "snapshot"
    /\ Resumes(task)
    /\ IF out = "Value"
       THEN /\ clock < MaxTime
            /\ LET snapshot == [key |-> task.key, datetime |-> clock + 1]
                   res == set_end_snapshot(model, snapshot)
               IN IF res.err = "None"
                  THEN Continue(task,
                                [task EXCEPT
                                    !.pc = "items",
                                    !.inv_diff =
                                        Diff(res.model.start_snapshot,
                                             res.model.end_snapshot)],
                                res.model,
                                [view EXCEPT
                                    !.message = "black"],
                                Scheduled(res, TRUE, tasks), clock + 1,
                                Event("set_end_snapshot", NoKey, snapshot,
                                      NoReport, TRUE, res.err, model.state,
                                      task.kind, "None"))
                  ELSE End(task, res.err, model, view, tasks, file, clock + 1,
                           Event("set_end_snapshot", NoKey, snapshot,
                                 NoReport, TRUE, res.err, model.state,
                                 task.kind, "raised"))
       ELSE Failed(task, out)

\* Controller._compute_gains from the outcome of the gathered requests for
\* the items' data and prices up to Cache.ensure_icons
_compute_gains_items(task, out) ==
    /\ Runnable(task)
    /\ task.kind = "_compute_gains"
    /\ task.pc = "items"
    /\ Resumes(task)
    /\ IF out = "Value"
       THEN Continue(task, [task EXCEPT !.pc = "icons"], model,
                     [view EXCEPT !.message = "black"],
                     tasks, clock,
                     Did("None", task.key, "None", task.kind, "None"))
       ELSE Failed(task, out)

\* Controller._compute_gains from the outcome of Cache.ensure_icons: the
\* Report is built from the dates of the snapshots the Model holds now and
\* the differences computed earlier, stored, and handed to
\* TkView.display_report(report, cache) without the cache argument
_compute_gains_report(task, out) ==
    /\ Runnable(task)
    /\ task.kind = "_compute_gains"
    /\ task.pc = "icons"
    /\ Resumes(task)
    /\ IF out = "Value"
       THEN IF model.start_snapshot = NoSnapshot
               \/ model.end_snapshot = NoSnapshot
            THEN End(task, "AttributeError", model, view, tasks, file, clock,
                     Did("None", task.key, "AttributeError", task.kind,
                         "raised"))
            ELSE LET report == [start_date |-> model.start_snapshot.datetime,
                                end_date |-> model.end_snapshot.datetime,
                                inv_diff |-> task.inv_diff]
                     res == set_report(model, report)
                 IN IF res.err = "None"
                    THEN End(task, "TypeError", res.model,
                             [view EXCEPT !.message = "black"],
                             Scheduled(res, TRUE, tasks), file, clock,
                             Event("set_report", NoKey, NoSnapshot, report,
                                   TRUE, res.err, model.state, task.kind,
                                   "raised"))
                    ELSE End(task, res.err, model, view, tasks, file, clock,
                             Event("set_report", NoKey, NoSnapshot, report,
                                   TRUE, res.err, model.state, task.kind,
                                   "raised"))
       ELSE Failed(task, out)

\* the closed top-level nursery exits: _main returns (or re-raises the error
\* that crashed it), the guest run ends and trio calls host.done_callback,
\* which destroys the Tk root
done_callback ==
    /\ Closed
    /\ ~guest.finished
    /\ guest' = [guest EXCEPT !.finished = TRUE]
    /\ done_calls' = done_calls + 1
    /\ view' = [view EXCEPT !.destroyed = TRUE]
    /\ last' = Did("done_callback", NoKey, guest.crashed, "None", "None")
    /\ UNCHANGED <<data, gathering, model, file, tasks, clock>>

Host ==
    \/ start
    \/ on_ui_start
    \/ \E key \in Keys : _on_button_key(key)
    \/ _on_get_start_snapshot
    \/ _on_compute_gains
    \/ close_app

ApiOutcomes == {"Value", "GW2APIError"}

\* the task runs a stretch of its code
Run(task) ==
    \/ save(task)
    \/ display_report(task)
    \/ validate_key_start(task)
    \/ \E out \in ApiOutcomes \cup {"KeyPermissionError", "Cancelled"} :
            _use_key_callback(task, out)
    \/ _get_start_snapshot_start(task)
    \/ \E out \in ApiOutcomes : _get_start_snapshot(task, out)
    \/ _compute_gains_start(task)
    \/ \E out \in ApiOutcomes : _compute_gains_snapshot(task, out)
    \/ \E out \in ApiOutcomes : _compute_gains_items(task, out)
    \/ \E out \in ApiOutcomes : _compute_gains_report(task, out)

\* the trio scheduler runs a task up to its next checkpoint, or raises
\* trio.Cancelled in it
Step(task) == Run(task) \/ Cancelled(task)

Guest ==
    \/ _main
    \/ \E task \in BagToSet(tasks) : Step(task)
    \/ done_callback

Next == Host \/ Guest

Spec == Init /\ [][Next]_vars

\* the host loop keeps running the guest's ticks: the tasks of each kind,
\* _main and the end of the run are not postponed forever
FairSpec ==
    /\ Spec
    /\ WF_vars(_main)
    /\ WF_vars(done_callback)
    /\ \A kind \in Intents \cup Helpers \cup {"sleep_forever"} :
            WF_vars(\E task \in BagToSet(tasks) :
                        task.kind = kind /\ Step(task))

\* the last tick of the clock in the sessions followed up to their shutdown
MaxTimeShutdown == 5

\* the steps of the application in a session that ends by MaxTimeShutdown
HostShutdown == Host /\ clock' <= MaxTimeShutdown

GuestShutdown == Guest /\ clock' <= MaxTimeShutdown

NextShutdown == HostShutdown \/ GuestShutdown

\* the host loop keeps running the guest's ticks (TkTrioHost schedules each
\* with `after idle`): the guest run as a whole is not postponed forever
FairGuest ==
    /\ Init
    /\ [][NextShutdown]_vars
    /\ WF_vars(GuestShutdown)

(***************************************************************************)
(* The Controller driven through its public methods by any caller (a view  *)
(* that gates nothing), while no shutdown is requested                     *)
(***************************************************************************)
CallStartTrioGuest ==
    /\ LET res == start_trio_guest(guest)
       IN /\ guest' = res.guest
          /\ last' = Did("start_trio_guest", NoKey, res.err, "None", "None")
    /\ UNCHANGED <<data, gathering, model, file, tasks, done_calls, view, clock>>

CallUseKey(key) ==
    /\ clock < MaxTime
    /\ use_key(key)
    /\ clock' = clock + 1
    /\ UNCHANGED <<data, gathering, model, file, guest, done_calls, view>>

CallGetStartSnapshot ==
    /\ clock < MaxTime
    /\ get_start_snapshot(view)
    /\ clock' = clock + 1
    /\ UNCHANGED <<data, gathering, model, file, guest, done_calls>>

CallComputeGains ==
    /\ clock < MaxTime
    /\ compute_gains(view)
    /\ clock' = clock + 1
    /\ UNCHANGED <<data, gathering, model, file, guest, done_calls>>

NextController ==
    \/ CallStartTrioGuest
    \/ \E key \in Keys : CallUseKey(key)
    \/ CallGetStartSnapshot
    \/ CallComputeGains
    \/ _main
    \/ \E task \in BagToSet(tasks) : Run(task)

SpecController == Init /\ [][NextController]_vars

(***************************************************************************)
(* A farming session: the application once the user's key was accepted and *)
(* the start snapshot was taken and saved, while no shutdown is requested. *)
(* The instants are counted from the start snapshot.                       *)
(***************************************************************************)
\* the state Controller._get_start_snapshot and the save it scheduled leave
SessionModel(key) ==
    set_start_snapshot(set_key(FreshModel, key).model,
                       [key |-> key, datetime |-> 1]).model

InitSession ==
    \E key \in Keys :
        /\ model = SessionModel(key)
        /\ file = <<SessionModel(key)>>
        /\ tasks = SetToBag({Task("sleep_forever", "sleep", NoKey, FreshModel,
                                  NoDiff)})
        /\ guest = [host |-> "host", runs |-> 1, started |-> TRUE,
                    cancel_called |-> FALSE, crashed |-> "None",
                    rescued |-> FALSE, finished |-> FALSE]
        /\ done_calls = 0
        /\ view = [_update_view(SessionModel(key), ReadyView, EmptyBag).view
                        EXCEPT !.ui_started = TRUE, !.message = "black"]
        /\ clock = 1
        /\ last = NoEvent
        /\ gathering = NoGather
        /\ data = NoData

NextSession ==
    \/ \E key \in Keys : _on_button_key(key)
    \/ _on_get_start_snapshot
    \/ _on_compute_gains
    \/ \E task \in BagToSet(tasks) : Run(task)

SpecSession == InitSession /\ [][NextSession]_vars

(***************************************************************************)
(* utils.gather: one call, its awaitables completing in any order          *)
(***************************************************************************)
\* the most awaitables handed to one call of gather
MaxGather == 3

\* what the awaitables return; each awaitable of a call is written as the
\* result it returns when it completes
Values == {"v1", "v2", "v3"}

\* the placeholder gather fills its list of results with: typing.Any
typing_Any == "Any"

\* the argument lists of a call: up to MaxGather awaitables
Awaitables == UNION {[1..n -> Values] : n \in 0..MaxGather}

\* gather up to the nursery block: the list of placeholders, and one collect
\* task started per argument
gather(awaitables) ==
    [tasks |-> awaitables,
     results |-> [index \in 1..Len(awaitables) |-> typing_Any],
     pending |-> 1..Len(awaitables),
     order |-> << >>,
     failed |-> {},
     error |-> 0,
     cancelled |-> {},
     pc |-> "nursery",
     out |-> << >>]

\* collect storing each result in the first slot still free
collect_by_arrival(g, index) ==
    [g EXCEPT !.results[Len(g.order) + 1] = g.tasks[index],
              !.pending = @ \ {index},
              !.order = Append(@, index)]

\* collect(results, index, task): results[index] = await task
collect(g, index) ==
    [g EXCEPT !.results[index] = g.tasks[index],
              !.pending = @ \ {index},
              !.order = Append(@, index)]

app_vars ==
    <<model, file, tasks, guest, done_calls, view, clock, last, data>>

InitGather ==
    /\ model = FreshModel
    /\ file = << >>
    /\ tasks = EmptyBag
    /\ guest = RunningGuest
    /\ done_calls = 0
    /\ view = ReadyView
    /\ clock = 0
    /\ last = NoEvent
    /\ \E awaitables \in Awaitables : gathering = gather(awaitables)
    /\ data = NoData

\* the awaitable of one collect task completes and collect stores its
\* result; in a cancelled nursery this happens to a task whose result had
\* arrived before the cancel
Collected(index) ==
    /\ gathering.pc \in {"nursery", "cancelling"}
    /\ index \in gathering.pending
    /\ gathering' = collect(gathering, index)
    /\ UNCHANGED app_vars

\* a collect that catches the error of its awaitable and ends normally
child_fails_quietly(g, index) ==
    [g EXCEPT !.pending = @ \ {index},
              !.failed = @ \cup {index},
              !.error = IF @ = 0 THEN index ELSE @]

\* the error of an awaitable leaves collect: the task ends by it and the
\* nursery of gather cancels its scope
child_fails(g, index) ==
    [g EXCEPT !.pending = @ \ {index},
              !.failed = @ \cup {index},
              !.error = IF @ = 0 THEN index ELSE @,
              !.pc = "cancelling"]

\* the awaitable of one collect task raises
Raises(index) ==
    /\ gathering.pc \in {"nursery", "cancelling"}
    /\ index \in gathering.pending
    /\ gathering' = child_fails(gathering, index)
    /\ UNCHANGED app_vars

\* a collect task waiting in the cancelled nursery ends by trio.Cancelled
collect_cancelled(index) ==
    /\ gathering.pc = "cancelling"
    /\ index \in gathering.pending
    /\ gathering' = [gathering EXCEPT !.pending = @ \ {index},
                                      !.cancelled = @ \cup {index}]
    /\ UNCHANGED app_vars

\* the nursery block ends once no collect task is left: the errors of the
\* failed tasks leave `async with`, the return statement is not reached
gather_raise ==
    /\ gathering.pc = "cancelling"
    /\ gathering.pending = {}
    /\ gathering' = [gathering EXCEPT !.pc = "raised"]
    /\ UNCHANGED app_vars

\* the nursery block ends once no collect task is left: return tuple(results)
gather_return ==
    /\ gathering.pc = "nursery"
    /\ gathering.pending = {}
    /\ gathering' = [gathering EXCEPT !.pc = "returned",
                                      !.out = gathering.results]
    /\ UNCHANGED app_vars

NextGather ==
    \/ \E index \in 1..MaxGather : Collected(index)
    \/ \E index \in 1..MaxGather : Raises(index)
    \/ \E index \in 1..MaxGather : collect_cancelled(index)
    \/ gather_return
    \/ gather_raise

SpecGather == InitGather /\ [][NextGather]_vars

(***************************************************************************)
(* models.Inventory: construction, addition and subtraction                *)
(***************************************************************************)
ItemIDs == {"i1", "i2"}

\* the largest amount, in absolute value, of the mappings handed to Inventory
MaxAmount == 2

\* the mappings an Inventory is built from: any keys, amounts of any sign,
\* zero included
Mappings ==
    UNION {[keys -> -MaxAmount..MaxAmount] : keys \in SUBSET ItemIDs}

\* an Inventory that keeps the mapping it is given as it is
Inventory_as_given(content) == content

\* Inventory(content), __attrs_post_init__: the entries with amount 0 are
\* dropped
Inventory(content) ==
    [k \in {j \in DOMAIN content : content[j] # 0} |-> content[k]]

\* Inventory.from_json of a dict[str, int]
Inventory_from_json(obj) == Inventory(obj)

\* Mapping.get
get(self, k, default) == IF k \in DOMAIN self THEN self[k] ELSE default

\* Inventory.__add__
__add__(self, other) ==
    Inventory([k \in DOMAIN self \cup DOMAIN other
                    |-> get(self, k, 0) + get(other, k, 0)])

\* a subtraction that goes through the keys of its left operand only
__sub___own_keys(self, other) ==
    Inventory([k \in DOMAIN self |-> get(self, k, 0) - get(other, k, 0)])

\* Inventory.__sub__
__sub__(self, other) ==
    Inventory([k \in DOMAIN self \cup DOMAIN other
                    |-> get(self, k, 0) - get(other, k, 0)])

other_vars ==
    <<model, file, tasks, guest, done_calls, view, clock, last, gathering>>

InitOthers ==
    /\ model = FreshModel
    /\ file = << >>
    /\ tasks = EmptyBag
    /\ guest = RunningGuest
    /\ done_calls = 0
    /\ view = ReadyView
    /\ clock = 0
    /\ last = NoEvent
    /\ gathering = NoGather

InitInventory ==
    /\ InitOthers
    /\ \E raw_a \in Mappings, raw_b \in Mappings :
            data = [pc |-> "mappings", raw_a |-> raw_a, raw_b |-> raw_b]

\* a = Inventory(raw_a); b = Inventory.from_json(raw_b)
InventoryBuilt ==
    /\ data.pc = "mappings"
    /\ data' = [pc |-> "built",
                a |-> Inventory(data.raw_a),
                b |-> Inventory_from_json(data.raw_b)]
    /\ UNCHANGED other_vars

\* sum = a + b; diff = a - b; same = a + Inventory()
InventoryAdded ==
    /\ data.pc = "built"
    /\ data' = [pc |-> "added", a |-> data.a, b |-> data.b,
                sum |-> __add__(data.a, data.b),
                diff |-> __sub__(data.a, data.b),
                same |-> __add__(data.a, Inventory(<< >>))]
    /\ UNCHANGED other_vars

\* back = sum - b
InventorySubtracted ==
    /\ data.pc = "added"
    /\ data' = [pc |-> "back", a |-> data.a, b |-> data.b,
                sum |-> data.sum, diff |-> data.diff, same |-> data.same,
                back |-> __sub__(data.sum, data.b)]
    /\ UNCHANGED other_vars

NextInventory == InventoryBuilt \/ InventoryAdded \/ InventorySubtracted

SpecInventory == InitInventory /\ [][NextInventory]_vars

(***************************************************************************)
(* Serialization of the models: to_json / from_json, to_file / from_file.  *)
(* A Python object is a record tagged with its class, a JSON object a      *)
(* record tagged "dict"; None is the empty tuple, a value that is there a  *)
(* tuple of one element                                                    *)
(***************************************************************************)
None == << >>

Some(x) == <<x>>

\* the Inventories over ItemIDs with amounts up to MaxAmount
Inventories == {Inventory(content) : content \in Mappings}

\* the instants (UTC) and the UTC offsets, in hours, of the local timezone
Instants == {10, 11}

Offsets == {0, 2}

\* pendulum.DateTime: an instant, read in a timezone
DateTimes ==
    [type : {"DateTime"}, utc : Instants, offset : Offsets, tz : {"local"}]

\* datetime.__eq__ between aware datetimes: the same instant
DateTime_eq(a, b) == a.type = b.type /\ a.utc = b.utc

\* DateTime.isoformat: the local date and time followed by the UTC offset
isoformat(dt) ==
    [type |-> "str", wall |-> dt.utc + dt.offset, offset |-> dt.offset]

\* a parser that drops the UTC offset of the text and reads it as UTC
parse_as_utc(text) ==
    [type |-> "DateTime", utc |-> text.wall, offset |-> 0, tz |-> "fixed"]

\* pendulum.parser.parse of an ISO 8601 text with an offset: the instant is
\* the local time less the offset, the timezone a fixed offset
parse(text) ==
    [type |-> "DateTime", utc |-> text.wall - text.offset,
     offset |-> text.offset, tz |-> "fixed"]

\* models.Snapshot(key, inventory, wallet, datetime, name)
Snapshot(key, inventory, wallet, datetime, name) ==
    [type |-> "Snapshot", key |-> key, inventory |-> inventory,
     wallet |-> wallet, datetime |-> datetime, name |-> name]

SnapshotObjects ==
    {Snapshot(key, inventory, wallet, datetime, name) :
        key \in Keys, inventory \in Inventories, wallet \in Inventories,
        datetime \in DateTimes, name \in {None, Some("name")}}

\* the __eq__ attrs generates for Snapshot: same class, equal fields
Snapshot_eq(a, b) ==
    /\ a.type = b.type
    /\ a.key = b.key
    /\ a.inventory = b.inventory
    /\ a.wallet = b.wallet
    /\ DateTime_eq(a.datetime, b.datetime)
    /\ a.name = b.name

\* Inventory.to_json: dict(self.content)
Inventory_to_json(self) == [k \in DOMAIN self |-> self[k]]

\* Snapshot.to_json: utils.jsonize (attr.asdict whose value_serializer calls
\* to_json on the Inventories), then the datetime as its isoformat
Snapshot_to_json(self) ==
    [type |-> "dict", key |-> self.key,
     inventory |-> Inventory_to_json(self.inventory),
     wallet |-> Inventory_to_json(self.wallet),
     datetime |-> isoformat(self.datetime), name |-> self.name]

\* Snapshot.from_json: utils.unjsonize converts the fields annotated with a
\* class that has from_json (inventory, wallet), then key and datetime
Snapshot_from_json(obj) ==
    Snapshot(obj.key, Inventory_from_json(obj.inventory),
             Inventory_from_json(obj.wallet), parse(obj.datetime), obj.name)

\* json.dump to a text file: the text of a JSON document
json_dump(content) == [type |-> "text", valid |-> TRUE, json |-> content]

\* json.load: the document of a text, JSONDecodeError (a ValueError) for a
\* text that is not a JSON document
json_load(text) ==
    IF text.valid THEN text.json
    ELSE [type |-> "ValueError", msg |-> "JSONDecodeError"]

InitSerial ==
    /\ InitOthers
    /\ \E snap \in SnapshotObjects : data = [pc |-> "object", snap |-> snap]

\* inv.to_json(), snap.to_json()
SerialToJson ==
    /\ data.pc = "object"
    /\ data' = [pc |-> "json", snap |-> data.snap,
                inv_json |-> Inventory_to_json(data.snap.inventory),
                snap_json |-> Snapshot_to_json(data.snap)]
    /\ UNCHANGED other_vars

\* Inventory.from_json, Snapshot.from_json of the serialized objects
SerialFromJson ==
    /\ data.pc = "json"
    /\ data' = [pc |-> "loaded", snap |-> data.snap, through |-> "json",
                inv_back |-> Inventory_from_json(data.inv_json),
                snap_back |-> Snapshot_from_json(data.snap_json)]
    /\ UNCHANGED other_vars

\* inv.to_file(f), snap.to_file(f), then from_file(f) of each
SerialThroughFile ==
    /\ data.pc = "json"
    /\ data' = [pc |-> "loaded", snap |-> data.snap, through |-> "file",
                inv_back |-> Inventory_from_json(
                                json_load(json_dump(data.inv_json))),
                snap_back |-> Snapshot_from_json(
                                json_load(json_dump(data.snap_json)))]
    /\ UNCHANGED other_vars

NextSerial == SerialToJson \/ SerialFromJson \/ SerialThroughFile

SpecSerial == InitSerial /\ [][NextSerial]_vars

(***************************************************************************)
(* ItemDetail and Report: construction, valuation, gains, serialization    *)
(***************************************************************************)
\* an exception raised by a constructor or by from_json
ValueError(msg) == [type |-> "ValueError", msg |-> msg]

\* pathlib.Path
Path(name) == [type |-> "Path", name |-> name]

\* models.ItemDetail(id, name, vendor_value, highest_buy, lowest_sell,
\* icon_path)
ItemDetail(id, name, vendor_value, highest_buy, lowest_sell, icon_path) ==
    [type |-> "ItemDetail", id |-> id, name |-> name,
     vendor_value |-> vendor_value, highest_buy |-> highest_buy,
     lowest_sell |-> lowest_sell, icon_path |-> icon_path]

\* the offers and vendor values of the items, in coins: with a sell offer,
\* with a buy offer only, with none, with offers worth less than the vendor
\* value, worth nothing at all, and with a sell offer below the buy offer
Offers ==
    {[buy |-> Some(100), sell |-> Some(120), vendor |-> 10],
     [buy |-> Some(100), sell |-> Some(50), vendor |-> 10],
     [buy |-> Some(100), sell |-> None, vendor |-> 10],
     [buy |-> None, sell |-> None, vendor |-> 50],
     [buy |-> None, sell |-> Some(7), vendor |-> 10],
     [buy |-> Some(7), sell |-> None, vendor |-> 0],
     [buy |-> None, sell |-> None, vendor |-> 0]}

\* the item details Controller._compute_gains builds for the ids `keys`,
\* the icons found in the cache being those of `icons`
ItemDetailsOf(keys, offers, icons) ==
    [k \in keys |->
        ItemDetail(k, "name", offers[k].vendor, offers[k].buy, offers[k].sell,
                   IF k \in icons THEN Some(Path(k)) ELSE None)]

\* ItemDetail.BLACK_LION_FEE, in hundredths
BLACK_LION_FEE == 15

\* int((1 - self.BLACK_LION_FEE) * price): 1 - 0.15 is the double nearest to
\* 0.85 and the product is rounded to a double before int() truncates it;
\* for every price below 2^44 the result is the integer part of
\* 85 * price / 100 (the rounded product of a multiple of 20 is the exact
\* integer, and no other product is within rounding distance of an integer)
after_fee(price) == ((100 - BLACK_LION_FEE) * price) \div 100

\* Python's `x or 0` for x an int or None
or_0(x) == IF x = None THEN 0 ELSE IF x[1] = 0 THEN 0 ELSE x[1]

max(a, b) == IF a >= b THEN a ELSE b

\* ItemDetail.value_black_lion_fast
value_black_lion_fast(self) ==
    IF self.highest_buy # None THEN Some(after_fee(self.highest_buy[1]))
    ELSE None

\* ItemDetail.value_fast
value_fast(self) == max(or_0(value_black_lion_fast(self)), self.vendor_value)

\* ItemDetail.value_black_lion_slow
value_black_lion_slow(self) ==
    IF self.lowest_sell # None THEN Some(after_fee(self.lowest_sell[1]))
    ELSE IF self.highest_buy # None THEN Some(after_fee(self.highest_buy[1]))
    ELSE None

\* ItemDetail.value_slow
value_slow(self) == max(or_0(value_black_lion_slow(self)), self.vendor_value)

\* ItemDetail.value
value(self) == value_slow(self)

\* Report._COIN_ID, the id of the coins among the ids of the model
_COIN_ID == "i1"

\* Report.coins
coins(self) == get(self.wallet_diff, _COIN_ID, 0)

\* sum(count * value for the ids of `ids`)
RECURSIVE sum(_, _, _)
sum(inv_diff, item_details, ids) ==
    IF ids = {} THEN 0
    ELSE LET id_ == CHOOSE k \in ids : TRUE
         IN  inv_diff[id_] * value(item_details[id_])
             + sum(inv_diff, item_details, ids \ {id_})

\* item gains that count only the items gained
item_gains_gained_only(self) ==
    sum(self.inv_diff, self.item_details,
        {k \in DOMAIN self.inv_diff : self.inv_diff[k] > 0})

\* Report.item_gains
item_gains(self) ==
    sum(self.inv_diff, self.item_details, DOMAIN self.inv_diff)

\* Report.total_gains
total_gains(self) == coins(self) + item_gains(self)

\* the generated __init__ of Report, without __attrs_post_init__
Report_unchecked(start_date, end_date, inv_diff, wallet_diff, item_details) ==
    [type |-> "Report", start_date |-> start_date, end_date |-> end_date,
     inv_diff |-> inv_diff, wallet_diff |-> wallet_diff,
     item_details |-> item_details]

Report(start_date, end_date, inv_diff, wallet_diff, item_details) ==
    IF ~(DOMAIN inv_diff \subseteq DOMAIN item_details)
    THEN ValueError("no item details for ids")
    ELSE [type |-> "Report", start_date |-> start_date,
          end_date |-> end_date, inv_diff |-> inv_diff,
          wallet_diff |-> wallet_diff, item_details |-> item_details]

\* the __eq__ attrs generates for Report
Report_eq(a, b) ==
    /\ a.type = b.type
    /\ DateTime_eq(a.start_date, b.start_date)
    /\ DateTime_eq(a.end_date, b.end_date)
    /\ a.inv_diff = b.inv_diff
    /\ a.wallet_diff = b.wallet_diff
    /\ a.item_details = b.item_details

\* the keys of a JSON object
keys(obj) == DOMAIN obj \ {"type"}

\* attr.asdict of an ItemDetail reached inside a dict value of the instance
\* being serialized (attrs' _asdict_anything): every field, under the filter
\* of the outer jsonize, which ignores nothing
asdict(inst) ==
    [type |-> "dict", id |-> inst.id, name |-> inst.name,
     vendor_value |-> inst.vendor_value, highest_buy |-> inst.highest_buy,
     lowest_sell |-> inst.lowest_sell, icon_path |-> inst.icon_path]

\* ItemDetail.to_json: utils.jsonize(self, ignore=["icon_path"])
ItemDetail_to_json(self) ==
    [type |-> "dict", id |-> self.id, name |-> self.name,
     vendor_value |-> self.vendor_value, highest_buy |-> self.highest_buy,
     lowest_sell |-> self.lowest_sell]

\* the two checks of utils.unjsonize on the keys of obj: none outside the
\* fields of the class that are not ignored, and every field that has a
\* default (`f.default is not attr.NOTHING`) present
unjsonize_accepts(fields, with_default, obj, ignore) ==
    /\ keys(obj) \subseteq fields \ ignore
    /\ (with_default \ ignore) \subseteq keys(obj)

\* ItemDetail.from_json: utils.unjsonize(cls, obj, ignore=["icon_path"]),
\* then cls(**fields)
ItemDetail_from_json(obj) ==
    IF ~unjsonize_accepts({"id", "name", "vendor_value", "highest_buy",
                           "lowest_sell", "icon_path"}, {"icon_path"}, obj,
                          {"icon_path"})
    THEN ValueError("json object has invalid fields not found in ItemDetail")
    ELSE ItemDetail(obj.id, obj.name, obj.vendor_value, obj.highest_buy,
                    obj.lowest_sell, None)

\* Report.to_json: utils.jsonize, then the two dates as their isoformat
Report_to_json(self) ==
    [type |-> "dict", start_date |-> isoformat(self.start_date),
     end_date |-> isoformat(self.end_date),
     inv_diff |-> Inventory_to_json(self.inv_diff),
     wallet_diff |-> Inventory_to_json(self.wallet_diff),
     item_details |-> [k \in DOMAIN self.item_details |->
                          asdict(self.item_details[k])]]

\* Report.from_json: utils.unjsonize, the two dates parsed, every item detail
\* through ItemDetail.from_json, then cls(**fields)
Report_from_json(obj) ==
    LET details == [k \in DOMAIN obj.item_details |->
                       ItemDetail_from_json(obj.item_details[k])]
    IN  IF ~unjsonize_accepts({"start_date", "end_date", "inv_diff",
                               "wallet_diff", "item_details"}, {}, obj, {})
        THEN ValueError("json object has invalid fields not found in Report")
        ELSE IF \E k \in DOMAIN details : details[k].type = "ValueError"
        THEN ValueError("json object has invalid fields not found in ItemDetail")
        ELSE Report(parse(obj.start_date), parse(obj.end_date),
                    Inventory_from_json(obj.inv_diff),
                    Inventory_from_json(obj.wallet_diff), details)

\* the wallet differences of the reports
WalletDiffs == {w \in Inventories : \A k \in DOMAIN w : w[k] \in {-1, 2}}

\* the arguments of a Report worth more than the bounded ones: 3 and 2
\* items with no offer and vendor values 10 and 20, and 500 coins
ManyItems ==
    [pc |-> "args",
     start_date |-> [type |-> "DateTime", utc |-> 10, offset |-> 0,
                     tz |-> "local"],
     end_date |-> [type |-> "DateTime", utc |-> 11, offset |-> 0,
                   tz |-> "local"],
     inv_diff |-> Inventory([k \in ItemIDs |-> IF k = "i1" THEN 3 ELSE 2]),
     wallet_diff |-> Inventory([k \in {_COIN_ID} |-> 500]),
     item_details |->
        ItemDetailsOf(ItemIDs,
                      [k \in ItemIDs |->
                          [buy |-> None, sell |-> None,
                           vendor |-> IF k = "i1" THEN 10 ELSE 20]], {})]

InitReport ==
    /\ InitOthers
    /\ \/ data = ManyItems
       \/ \E inv_diff \in Inventories, wallet_diff \in WalletDiffs,
          ids \in SUBSET ItemIDs, offers \in [ItemIDs -> Offers],
          icons \in {{}, {"i1"}}, offset \in Offsets :
            data = [pc |-> "args",
                    start_date |-> [type |-> "DateTime", utc |-> 10,
                                    offset |-> offset, tz |-> "local"],
                    end_date |-> [type |-> "DateTime", utc |-> 11,
                                  offset |-> offset, tz |-> "local"],
                    inv_diff |-> inv_diff, wallet_diff |-> wallet_diff,
                    item_details |-> ItemDetailsOf(ids, offers, icons)]

\* models.Report(start_date=..., end_date=..., inv_diff=..., wallet_diff=...,
\* item_details=...)
ReportConstructed ==
    /\ data.pc = "args"
    /\ data' = [pc |-> "report", inv_diff |-> data.inv_diff,
                item_details |-> data.item_details,
                report |-> Report(data.start_date, data.end_date,
                                  data.inv_diff, data.wallet_diff,
                                  data.item_details)]
    /\ UNCHANGED other_vars

\* report.to_json()
ReportToJson ==
    /\ data.pc = "report"
    /\ data.report.type = "Report"
    /\ data' = [pc |-> "json", report |-> data.report,
                json |-> Report_to_json(data.report)]
    /\ UNCHANGED other_vars

\* Report.from_json(report.to_json())
ReportFromJson ==
    /\ data.pc = "json"
    /\ data' = [pc |-> "loaded", report |-> data.report,
                back |-> Report_from_json(data.json)]
    /\ UNCHANGED other_vars

\* value of every item detail, report.coins, report.item_gains,
\* report.total_gains
ReportValued ==
    /\ data.pc = "report"
    /\ data.report.type = "Report"
    /\ data' = [pc |-> "valued", report |-> data.report,
                black_lion |-> [k \in DOMAIN data.report.item_details |->
                    value_black_lion_slow(data.report.item_details[k])],
                slow |-> [k \in DOMAIN data.report.item_details |->
                    value_slow(data.report.item_details[k])],
                fast |-> [k \in DOMAIN data.report.item_details |->
                    value_fast(data.report.item_details[k])],
                value |-> [k \in DOMAIN data.report.item_details |->
                    value(data.report.item_details[k])],
                coins |-> coins(data.report),
                item_gains |-> item_gains(data.report),
                total_gains |-> total_gains(data.report)]
    /\ UNCHANGED other_vars

NextReport ==
    ReportConstructed \/ ReportToJson \/ ReportFromJson \/ ReportValued

SpecReport == InitReport /\ [][NextReport]_vars

(***************************************************************************)
(* The state file: Model.to_file at every save, Model.from_file and        *)
(* GW2Tracker.__init__ at the next start                                   *)
(***************************************************************************)
\* models.Model with its filepath; an absent field is None, a field that is
\* set is Some(value)
Model(filepath, state, current_key, start_snapshot, end_snapshot, report) ==
    [type |-> "Model", filepath |-> filepath, state |-> state,
     current_key |-> current_key, start_snapshot |-> start_snapshot,
     end_snapshot |-> end_snapshot, report |-> report]

\* models.Model(model_file): every other field at its default
Model_fresh(filepath) == Model(filepath, STARTED, None, None, None, None)

\* what the account holds when a snapshot is taken: positive counts
Holdings == {inv \in Inventories : \A k \in DOMAIN inv : inv[k] > 0}

\* the snapshots gw2_api.get_snapshot returns for a key
SnapshotsOf(key) ==
    {Snapshot(key, inventory, wallet, datetime, None) :
        inventory \in Holdings,
        wallet \in {w \in Holdings : DOMAIN w = {"i1"}},
        datetime \in DateTimes}

\* the Report Controller._compute_gains builds from two snapshots
ReportOf(snap_start, snap_end, icons) ==
    LET inv_diff == __sub__(snap_end.inventory, snap_start.inventory)
    IN  Report(snap_start.datetime, snap_end.datetime, inv_diff,
               __sub__(snap_end.wallet, snap_start.wallet),
               ItemDetailsOf(DOMAIN inv_diff,
                             [k \in ItemIDs |->
                                 [buy |-> Some(100), sell |-> Some(120),
                                  vendor |-> 10]], icons))

\* the Models the transitions set_key, set_start_snapshot, set_end_snapshot
\* and set_report lead to, and the fresh one
ModelsAt(filepath) ==
    {Model_fresh(filepath)}
    \cup {Model(filepath, KEY, Some(key), None, None, None) : key \in Keys}
    \cup UNION {{Model(filepath, SNAP_START, Some(key), Some(snap_start), None,
                       None) : snap_start \in SnapshotsOf(key)} : key \in Keys}
    \cup UNION {{Model(filepath, SNAP_END, Some(key), Some(snap_start), Some(snap_end),
                       None) :
                    snap_start \in SnapshotsOf(key), snap_end \in SnapshotsOf(key)} :
                 key \in Keys}
    \cup UNION {UNION {{Model(filepath, REPORT, Some(key), Some(snap_start),
                              Some(snap_end), Some(ReportOf(snap_start, snap_end, icons))) :
                           snap_start \in SnapshotsOf(key),
                           snap_end \in SnapshotsOf(key)} :
                        icons \in {{}, ItemIDs}} : key \in Keys}

\* Model.to_json: utils.jsonize(self, ignore=["filepath"]); States, Snapshot
\* and Report have to_json
Model_to_json(self) ==
    [type |-> "dict", state |-> self.state, current_key |-> self.current_key,
     start_snapshot |->
        IF self.start_snapshot = None THEN None
        ELSE Some(Snapshot_to_json(self.start_snapshot[1])),
     end_snapshot |->
        IF self.end_snapshot = None THEN None
        ELSE Some(Snapshot_to_json(self.end_snapshot[1])),
     report |->
        IF self.report = None THEN None
        ELSE Some(Report_to_json(self.report[1]))]

\* whether json.dump can encode the document of a Model: the icon_path of
\* an item detail of the report may be a Path, which the encoder refuses
json_encodable(content) ==
    \/ content.report = None
    \/ \A k \in DOMAIN content.report[1].item_details :
            content.report[1].item_details[k].icon_path = None

\* a file whose text is not a JSON document
Truncated == [type |-> "text", valid |-> FALSE, json |-> None]

\* no file at the path
NoFile == [type |-> "absent", valid |-> FALSE, json |-> None]

\* Model.to_file: the file is opened for writing (and so emptied), then
\* json.dump writes the document piece by piece; a TypeError of the encoder
\* leaves the text written so far
Model_to_file(self) ==
    LET content == Model_to_json(self)
    IN  IF json_encodable(content)
        THEN [raised |-> "None", file |-> json_dump(content)]
        ELSE [raised |-> "TypeError", file |-> Truncated]

\* typing.get_args of the annotation `None | X`, after attr.resolve_types:
\* the class NoneType and the class X
get_args(X) == {"NoneType", X}

\* the test of utils.unjsonize for an optional field,
\* `len(args) == 2 and None in args`: the arguments hold the class NoneType,
\* never the object None
is_optional(args) == Cardinality(args) = 2 /\ "None" \in args

\* the value utils.unjsonize gives a field annotated `None | X`, X a class
\* with from_json: without the class taken out of the union, the annotation
\* is not a class and the JSON value is kept as it is
unjsonize_optional(X, deserialized, raw) ==
    IF is_optional(get_args(X)) THEN deserialized ELSE raw

\* States.from_json: States(value), a ValueError for any other value
States_from_json(member) ==
    IF member \in States THEN member ELSE -1

\* Model.from_file: json.load, the document must be an object, utils.unjsonize
\* (ignore=["filepath"]), then Model(filepath=filepath, **fields)
Model_from_file(filepath, text) ==
    LET obj == json_load(text)
    IN  IF text.type = "absent" THEN [type |-> "FileNotFoundError"]
        ELSE IF obj.type = "ValueError" THEN obj
        ELSE IF obj.type # "dict"
        THEN ValueError("does not contain a json object")
        ELSE IF ~unjsonize_accepts(
                    {"filepath", "state", "current_key", "start_snapshot",
                     "end_snapshot", "report"},
                    {"state", "current_key", "start_snapshot", "end_snapshot",
                     "report"}, obj, {"filepath"})
        THEN ValueError("json object has invalid or missing fields")
        ELSE IF States_from_json(obj.state) = -1
        THEN ValueError("is not a valid States")
        ELSE Model(filepath, States_from_json(obj.state), obj.current_key,
                   unjsonize_optional("Snapshot",
                       IF obj.start_snapshot = None THEN None
                       ELSE Some(Snapshot_from_json(obj.start_snapshot[1])),
                       obj.start_snapshot),
                   unjsonize_optional("Snapshot",
                       IF obj.end_snapshot = None THEN None
                       ELSE Some(Snapshot_from_json(obj.end_snapshot[1])),
                       obj.end_snapshot),
                   unjsonize_optional("Report",
                       IF obj.report = None THEN None
                       ELSE Some(Report_from_json(obj.report[1])),
                       obj.report))

\* GW2Tracker.__init__ without its `is_file()` test and its `except Exception`
GW2Tracker_model_unguarded(path, text) == Model_from_file(path, text)

\* GW2Tracker.__init__: the Model of the file when there is a file and
\* Model.from_file returns, a fresh Model on the same path otherwise
GW2Tracker_model(path, text) ==
    LET loaded == Model_from_file(path, text)
    IN  IF text.type # "absent" /\ loaded.type = "Model" THEN loaded
        ELSE Model_fresh(path)

\* files left by something other than a save that returned: a text that is
\* not JSON, a document that is not an object, an object with an unknown
\* key, with a field missing, with a state that is no States member
ForeignFiles ==
    {Truncated,
     json_dump([type |-> "list"]),
     json_dump([type |-> "dict", state |-> KEY, current_key |-> Some("k1"),
                start_snapshot |-> None, end_snapshot |-> None,
                report |-> None, version |-> Some("1")]),
     json_dump([type |-> "dict", state |-> KEY, current_key |-> Some("k1")]),
     json_dump([type |-> "dict", state |-> 7, current_key |-> Some("k1"),
                start_snapshot |-> None, end_snapshot |-> None,
                report |-> None])}

\* equality of two optional fields of a Model, each compared by the __eq__
\* of its class; a dict is equal to no Snapshot and to no Report
Optional_equal(a, b) ==
    IF a = None \/ b = None THEN a = None /\ b = None
    ELSE /\ a[1].type = b[1].type
         /\ \/ a[1].type = "Snapshot" /\ Snapshot_eq(a[1], b[1])
            \/ a[1].type = "Report" /\ Report_eq(a[1], b[1])
            \/ a[1].type = "dict" /\ a[1] = b[1]

\* the same state, current key, start snapshot, end snapshot and report
SameFields(a, b) ==
    /\ a.type = b.type
    /\ a.state = b.state
    /\ a.current_key = b.current_key
    /\ Optional_equal(a.start_snapshot, b.start_snapshot)
    /\ Optional_equal(a.end_snapshot, b.end_snapshot)
    /\ Optional_equal(a.report, b.report)

model_file == "model.json"

\* the application is running with a Model; the file is absent or was left
\* by something else
InitStateFile ==
    /\ InitOthers
    /\ \E m \in ModelsAt(model_file), f \in {NoFile} \cup ForeignFiles :
            data = [pc |-> "running", m |-> m, file |-> f, saved |-> "never"]

\* Model.save of the Model (of the copy a transition took of it)
ModelSaved ==
    /\ data.pc = "running"
    /\ data.m.state # STARTED
    /\ LET res == Model_to_file(data.m)
       IN  data' = [data EXCEPT !.pc = "saved", !.file = res.file,
                                !.saved = res.raised]
    /\ UNCHANGED other_vars

\* the application is started again: Model.from_file(model_file) on its own,
\* and the Model GW2Tracker.__init__ ends with
AppRestarted ==
    /\ data.pc \in {"running", "saved"}
    /\ data' = [pc |-> "started", m |-> data.m, file |-> data.file,
                saved |-> data.saved,
                loaded |-> Model_from_file(model_file, data.file),
                model |-> GW2Tracker_model(model_file, data.file)]
    /\ UNCHANGED other_vars

NextStateFile == ModelSaved \/ AppRestarted

SpecStateFile == InitStateFile /\ [][NextStateFile]_vars

(***************************************************************************)
(* models.Cache: the icons of the items, downloaded when they are missing  *)
(***************************************************************************)
\* the icon URLs the item data refer to
IconURLs == {"u1", "u2", "u3"}

\* the item data of some items: the icon URL of each
ItemDatas == UNION {[ids -> IconURLs] : ids \in SUBSET ItemIDs}

\* Cache.images for the ids of `ids`, as Cache.from_dir or an earlier
\* ensure_icons filled it
ImagesOf(ids) == [k \in ids |-> Path(k)]

\* Cache.get_image: self.images.get(item_id)
get_image(images, item_id) ==
    IF item_id \in DOMAIN images THEN Some(images[item_id]) ELSE None

\* the dicts `urls` that the comprehension of Cache.ensure_icons can build
\* over the set missing_ids: one entry per URL, and for a URL that several
\* missing ids share, the path of the id the iteration of the set met last
urls_of(item_data, missing_ids) ==
    {urls \in [{item_data[k] : k \in missing_ids} -> missing_ids] :
        \A url \in DOMAIN urls : item_data[urls[url]] = url}

InitCache ==
    /\ InitOthers
    /\ \E item_data \in ItemDatas, cached \in SUBSET ItemIDs :
            data = [pc |-> "args", item_data |-> item_data,
                    images |-> ImagesOf(cached), before |-> ImagesOf(cached),
                    urls |-> << >>, result |-> {}, failed |-> FALSE]

\* Cache.ensure_icons up to `await gw2_api.download_images(session, urls)`,
\* which starts one download_image task per entry of urls
ensure_icons_start ==
    /\ data.pc = "args"
    /\ \E urls \in urls_of(data.item_data,
                           DOMAIN data.item_data \ DOMAIN data.images) :
            data' = [data EXCEPT !.pc = "downloading", !.urls = urls]
    /\ UNCHANGED other_vars

\* gw2_api.download_images: a download_image task wrote its file and stored
\* result[url] = path
download_image(url) ==
    /\ data.pc = "downloading"
    /\ ~data.failed
    /\ url \in DOMAIN data.urls \ data.result
    /\ data' = [data EXCEPT !.result = @ \cup {url}]
    /\ UNCHANGED other_vars

\* a download_image task raised (the request failed): the nursery of
\* download_images cancels the others and the error leaves ensure_icons
download_image_raises(url) ==
    /\ data.pc = "downloading"
    /\ ~data.failed
    /\ url \in DOMAIN data.urls \ data.result
    /\ data' = [data EXCEPT !.pc = "raised", !.failed = TRUE]
    /\ UNCHANGED other_vars

\* download_images returns result; Cache.ensure_icons updates self.images
\* with {ItemID(path.stem): path for path in downloads.values()}
ensure_icons_return ==
    /\ data.pc = "downloading"
    /\ data.result = DOMAIN data.urls
    /\ data' = [data EXCEPT
                    !.pc = "returned",
                    !.images =
                        [k \in DOMAIN data.images
                                \cup {data.urls[url] : url \in data.result} |->
                            IF k \in {data.urls[url] : url \in data.result}
                            THEN Path(k) ELSE data.images[k]]]
    /\ UNCHANGED other_vars

NextCache ==
    \/ ensure_icons_start
    \/ \E url \in IconURLs : download_image(url)
    \/ \E url \in IconURLs : download_image_raises(url)
    \/ ensure_icons_return

SpecCache == InitCache /\ [][NextCache]_vars

(***************************************************************************)
(* The trio run loop under the tasks of a farming session: each tick takes *)
(* the tasks that are runnable as one batch, in the order they became      *)
(* runnable or in the reverse order, and runs each of them up to its next  *)
(* checkpoint; what a task makes runnable waits for the next tick.         *)
(* data.io holds the tasks parked on a request, data.runq and data.batch   *)
(* the run queue and the batch of the tick, data.tick counts the ticks and *)
(* data.written is the tick of the transition whose copy the file holds.   *)
(***************************************************************************)
\* a task of the run loop: a coroutine, where it stands, its locals, the
\* outcome of the request it awaited and the tick that scheduled it
Job(kind, pc, key, copy, inv_diff, tick) ==
    [kind |-> kind, pc |-> pc, key |-> key, copy |-> copy,
     inv_diff |-> inv_diff, tick |-> tick, out |-> "None"]

\* the intents the user can have issued in the session, each parked on its
\* first request: gw2_api.validate_key or gw2_api.get_snapshot
IntentJobs(key) ==
    {Job("validate_key", "start", k, FreshModel, NoDiff, 0) : k \in Keys}
        \cup {Job(kind, "snapshot", key, FreshModel, NoDiff, 0) :
                kind \in {"_get_start_snapshot", "_compute_gains"}}

InitSchedule ==
    \E key \in Keys :
        /\ model = SessionModel(key)
        /\ file = <<SessionModel(key)>>
        /\ tasks = EmptyBag
        /\ guest = RunningGuest
        /\ done_calls = 0
        /\ view = ReadyView
        /\ clock = 1
        /\ last = NoEvent
        /\ gathering = NoGather
        /\ \E jobs \in SUBSET IntentJobs(key) :
                /\ Cardinality({j \in jobs : j.kind = "validate_key"}) <= 1
                /\ data = [pc |-> "run", io |-> jobs, runq |-> << >>,
                           batch |-> << >>, tick |-> 0, written |-> 0]

schedule_vars == <<tasks, guest, done_calls, view, last, gathering>>

\* trio's reschedule: the request a parked task awaits ends, the task is
\* appended to the run queue
reschedule(job, out) ==
    /\ job \in data.io
    /\ data' = [data EXCEPT !.io = @ \ {job},
                            !.runq = Append(@, [job EXCEPT !.out = out])]
    /\ UNCHANGED <<model, file, clock>>
    /\ UNCHANGED schedule_vars

\* reversal of a batch
Reverse(batch) == [i \in 1..Len(batch) |-> batch[Len(batch) + 1 - i]]

\* the run loop starts a tick: batch = list(runq), reversed one time in two
take_batch(reversed) ==
    /\ data.batch = << >>
    /\ data.runq # << >>
    /\ data' = [data EXCEPT
                    !.batch = IF reversed THEN Reverse(data.runq)
                              ELSE data.runq,
                    !.runq = << >>,
                    !.tick = @ + 1]
    /\ UNCHANGED <<model, file, clock>>
    /\ UNCHANGED schedule_vars

\* the run queue after a transition: TrioGuest.start_soon(copy.save) makes a
\* _wrap task runnable when the transition returned
Wrapped(res, runq) ==
    IF res.err = "None"
    THEN Append(runq, Job("_wrap", "start", NoKey, evolve(res.model), NoDiff,
                          data.tick))
    ELSE runq

\* the task the tick runs next: batch.pop()
Popped == data.batch[Len(data.batch)]

Rest == SubSeq(data.batch, 1, Len(data.batch) - 1)

\* Controller._use_key_callback with the outcome of gw2_api.validate_key
run_use_key_callback ==
    /\ data.batch # << >>
    /\ Popped.kind = "validate_key"
    /\ LET res == IF Popped.out = "Value" THEN set_key(model, Popped.key)
                  ELSE Raised(Popped.out, model)
       IN /\ model' = res.model
          /\ data' = [data EXCEPT !.batch = Rest,
                                  !.runq = Wrapped(res, @)]
    /\ UNCHANGED <<file, clock>>
    /\ UNCHANGED schedule_vars

\* Controller._get_start_snapshot with the outcome of gw2_api.get_snapshot
run_get_start_snapshot ==
    /\ data.batch # << >>
    /\ Popped.kind = "_get_start_snapshot"
    /\ Popped.out = "Value" => clock < MaxTime
    /\ LET snapshot == [key |-> Popped.key, datetime |-> clock + 1]
           res == IF Popped.out = "Value"
                  THEN set_start_snapshot(model, snapshot)
                  ELSE Raised(Popped.out, model)
       IN /\ model' = res.model
          /\ data' = [data EXCEPT !.batch = Rest,
                                  !.runq = Wrapped(res, @)]
    /\ clock' = IF Popped.out = "Value" THEN clock + 1 ELSE clock
    /\ UNCHANGED file
    /\ UNCHANGED schedule_vars

\* Controller._compute_gains from one request to the next: set_end_snapshot
\* and the differences after get_snapshot, then the items' data and prices
\* (no transition is called: "NoCall"), then the icons and set_report
run_compute_gains ==
    /\ data.batch # << >>
    /\ Popped.kind = "_compute_gains"
    /\ (Popped.out = "Value" /\ Popped.pc = "snapshot") => clock < MaxTime
    /\ LET snapshot == [key |-> Popped.key, datetime |-> clock + 1]
           report == [start_date |-> model.start_snapshot.datetime,
                      end_date |-> model.end_snapshot.datetime,
                      inv_diff |-> Popped.inv_diff]
           res == IF Popped.out # "Value" THEN Raised(Popped.out, model)
                  ELSE IF Popped.pc = "snapshot"
                  THEN set_end_snapshot(model, snapshot)
                  ELSE IF Popped.pc = "items" THEN Raised("NoCall", model)
                  ELSE IF model.start_snapshot = NoSnapshot
                          \/ model.end_snapshot = NoSnapshot
                  THEN Raised("AttributeError", model)
                  ELSE set_report(model, report)
           parked == IF Popped.out # "Value" THEN {}
                     ELSE IF Popped.pc = "snapshot" /\ res.err = "None"
                     THEN {[Popped EXCEPT
                                !.pc = "items", !.out = "None",
                                !.inv_diff = Diff(res.model.start_snapshot,
                                                  res.model.end_snapshot)]}
                     ELSE IF Popped.pc = "items"
                     THEN {[Popped EXCEPT !.pc = "icons", !.out = "None"]}
                     ELSE {}
       IN /\ model' = res.model
          /\ data' = [data EXCEPT !.batch = Rest,
                                  !.io = @ \cup parked,
                                  !.runq = Wrapped(res, @)]
          /\ clock' = IF Popped.out = "Value" /\ Popped.pc = "snapshot"
                      THEN clock + 1 ELSE clock
    /\ UNCHANGED file
    /\ UNCHANGED schedule_vars

\* TrioGuest._wrap(copy.save): the nursery it opens makes copy.save runnable
\* and the wrapper waits for it
run_wrap ==
    /\ data.batch # << >>
    /\ Popped.kind = "_wrap"
    /\ data' = [data EXCEPT !.batch = Rest,
                            !.runq = Append(@, [Popped EXCEPT
                                                    !.kind = "save"])]
    /\ UNCHANGED <<model, file, clock>>
    /\ UNCHANGED schedule_vars

\* Model.save of the copy: Model.to_file, without a checkpoint
run_save ==
    /\ data.batch # << >>
    /\ Popped.kind = "save"
    /\ file' = to_file(Popped)
    /\ data' = [data EXCEPT !.batch = Rest, !.written = Popped.tick]
    /\ UNCHANGED <<model, clock>>
    /\ UNCHANGED schedule_vars

NextSchedule ==
    \/ \E job \in data.io, out \in ApiOutcomes : reschedule(job, out)
    \/ \E reversed \in BOOLEAN : take_batch(reversed)
    \/ run_use_key_callback
    \/ run_get_start_snapshot
    \/ run_compute_gains
    \/ run_wrap
    \/ run_save

SpecSchedule == InitSchedule /\ [][NextSchedule]_vars

(***************************************************************************)
(* gw2_api.get_aggregated_inventory: the slots the API returns for the     *)
(* shared inventory, the bank, the materials and the bags of a character,  *)
(* turned into one Inventory                                               *)
(***************************************************************************)
\* the slots of a source: null for an empty slot, else an object with the
\* item's id and count, and its charges when the item has some
Slots ==
    {None,
     Some([id |-> "i1", count |-> 1]),
     Some([id |-> "i1", count |-> 2]),
     Some([id |-> "i2", count |-> 0]),
     Some([id |-> "i2", count |-> 1, charges |-> 2])}

\* the most slots of the shared inventory, and of the other sources
MaxSlots == 2
MaxFewSlots == 1

\* the most bags of the character
MaxBags == 2

SlotLists(n) == UNION {[1..len -> Slots] : len \in 0..n}

\* a bag of a character: null for an empty bag slot, else its inventory
Bags ==
    {None} \cup {Some([inventory |-> slots]) : slots \in SlotLists(MaxFewSlots)}

\* _unwrap_slot: the first of "charges", "count", "value" the slot has
_unwrap_slot(slot) ==
    <<slot.id, IF "charges" \in DOMAIN slot THEN slot.charges ELSE slot.count>>

\* filter(None, slots)
filter_None(slots) == SelectSeq(slots, LAMBDA slot : slot # None)

\* dict(pairs): a key given several times keeps the value given last
dict(pairs) ==
    [k \in {pairs[i][1] : i \in DOMAIN pairs} |->
        LET at == CHOOSE i \in DOMAIN pairs :
                    /\ pairs[i][1] = k
                    /\ \A j \in DOMAIN pairs : pairs[j][1] = k => j <= i
        IN pairs[at][2]]

\* _slots_to_dict: dict(map(_unwrap_slot, filter(None, slots)))
_slots_to_dict(slots) ==
    LET present == filter_None(slots)
    IN dict([i \in DOMAIN present |-> _unwrap_slot(present[i][1])])

\* sum(inventories, start=models.Inventory())
RECURSIVE sum_inventories(_)
sum_inventories(inventories) ==
    IF inventories = << >> THEN Inventory(<< >>)
    ELSE __add__(sum_inventories(SubSeq(inventories, 1,
                                        Len(inventories) - 1)),
                 inventories[Len(inventories)])

\* get_character_inventory: the bags that are not null and not empty
get_character_inventory(content) ==
    LET bags == SelectSeq(content, LAMBDA b : b # None)
        full == SelectSeq(bags, LAMBDA b : b[1].inventory # << >>)
    IN sum_inventories([i \in DOMAIN full |->
                            Inventory(_slots_to_dict(full[i][1].inventory))])

InitSlots ==
    /\ InitOthers
    /\ \E account \in SlotLists(MaxSlots), bank \in SlotLists(MaxFewSlots),
          materials \in SlotLists(MaxFewSlots),
          bags \in UNION {[1..len -> Bags] : len \in 0..MaxBags} :
            data = [pc |-> "gather", account |-> account, bank |-> bank,
                    materials |-> materials, bags |-> bags,
                    results |-> [source \in {} |-> << >>]]

\* one of the coroutines handed to utils.gather returns its Inventory
Returns(source, inventory) ==
    /\ data.pc = "gather"
    /\ source \notin DOMAIN data.results
    /\ data' = [data EXCEPT
                    !.results = [src \in DOMAIN @ \cup {source} |->
                                    IF src = source THEN inventory
                                    ELSE @[src]]]
    /\ UNCHANGED other_vars

get_account_inventory ==
    Returns(1, Inventory(_slots_to_dict(data.account)))

get_bank_inventory ==
    Returns(2, Inventory(_slots_to_dict(data.bank)))

get_bank_materials ==
    Returns(3, Inventory(_slots_to_dict(data.materials)))

\* get_characters_inventories, for the account's character
get_characters_inventories ==
    Returns(4, sum_inventories(<<get_character_inventory(data.bags)>>))

\* get_aggregated_inventory: utils.gather has returned the four inventories
\* in the order of its arguments
get_aggregated_inventory ==
    /\ data.pc = "gather"
    /\ DOMAIN data.results = 1..4
    /\ data' = [pc |-> "done", account |-> data.account, bank |-> data.bank,
                materials |-> data.materials, bags |-> data.bags,
                results |-> data.results,
                inventory |-> sum_inventories(data.results)]
    /\ UNCHANGED other_vars

NextSlots ==
    \/ get_account_inventory
    \/ get_bank_inventory
    \/ get_bank_materials
    \/ get_characters_inventories
    \/ get_aggregated_inventory

SpecSlots == InitSlots /\ [][NextSlots]_vars

(***************************************************************************)
(* Claims about the Model's transitions (checked under SpecModel)          *)
(***************************************************************************)
ModelOps == {"set_key", "set_start_snapshot", "set_end_snapshot", "set_report"}

\* C4: set_start_snapshot called while the state is below KeySet, or with a
\* snapshot whose key differs from current_key, raises the precondition error
\* (ValueError), leaves every Model field unchanged and schedules no save.
C4_StartSnapshotRejected ==
    [][(/\ last'.op = "set_start_snapshot"
        /\ \/ model.state < KEY
           \/ last'.snapshot.key # model.current_key)
       => (/\ last'.err = "ValueError"
           /\ model' = model
           /\ tasks' = tasks)]_vars

\* C4 witness: a snapshot was refused before any key was set, by a call that
\* was given a trio_guest
C4_Witness ==
    /\ last.op = "set_start_snapshot"
    /\ last.pre = STARTED
    /\ last.trio_guest
    /\ last.err = "ValueError"
    /\ model = FreshModel

\* C5: set_key(k) with k different from the current key, from any state,
\* leaves state = KeySet, current_key = k and no snapshot and no report.
C5_NewKeyResets ==
    [][(/\ last'.op = "set_key"
        /\ last'.key # model.current_key)
       => model' = [state |-> KEY, current_key |-> last'.key,
                    start_snapshot |-> NoSnapshot,
                    end_snapshot |-> NoSnapshot, report |-> NoReport]]_vars

\* C5 witness: a new key was set while a report was held
C5_Witness ==
    /\ last.op = "set_key"
    /\ last.pre = REPORT
    /\ model.state = KEY
    /\ model.report = NoReport

\* C6 as stated: set_key never fails and always leaves the state KeySet,
\* also for a key equal to the current key.
C6_SetKeyAlwaysKeySet ==
    last.op = "set_key" => (last.err = "None" /\ model.state = KEY)

\* C6 amended: set_key never fails; with a key different from the current one
\* it leaves the state KeySet; with the current key it changes no field, so
\* the state stays what it was (at least KeySet).
C6_SetKeyNeverFails ==
    [][last'.op = "set_key"
       => (/\ last'.err = "None"
           /\ model'.state >= KEY
           /\ IF last'.key # model.current_key
              THEN model'.state = KEY
              ELSE model' = model)]_vars

\* C6 witness: the current key was set again while a report was held
C6_Witness ==
    /\ last.op = "set_key"
    /\ last.key = model.current_key
    /\ last.pre = REPORT
    /\ model.state = REPORT

\* C7: set_start_snapshot(s) in any state >= KeySet with s.key = current_key
\* returns and leaves state = StartSnapshotSet, start_snapshot = s, no end
\* snapshot, no report, and the same current_key.
C7_StartSnapshotAccepted ==
    [][(/\ last'.op = "set_start_snapshot"
        /\ model.state >= KEY
        /\ last'.snapshot.key = model.current_key)
       => (/\ last'.err = "None"
           /\ model' = [state |-> SNAP_START,
                        current_key |-> model.current_key,
                        start_snapshot |-> last'.snapshot,
                        end_snapshot |-> NoSnapshot,
                        report |-> NoReport])]_vars

\* C7 witness: a start snapshot was accepted while a report was held
C7_Witness ==
    /\ last.op = "set_start_snapshot"
    /\ last.err = "None"
    /\ last.pre = REPORT
    /\ model.start_snapshot = last.snapshot

\* C8: set_end_snapshot(s) returns exactly when state >= StartSnapshotSet and
\* s.key = current_key; then state = EndSnapshotSet, end_snapshot = s, and
\* current_key and start_snapshot are unchanged; otherwise it raises the
\* precondition error and no field changes.
C8_EndSnapshot ==
    [][last'.op = "set_end_snapshot"
       => IF model.state >= SNAP_START
             /\ last'.snapshot.key = model.current_key
          THEN /\ last'.err = "None"
               /\ model'.state = SNAP_END
               /\ model'.end_snapshot = last'.snapshot
               /\ model'.current_key = model.current_key
               /\ model'.start_snapshot = model.start_snapshot
          ELSE /\ last'.err = "ValueError"
               /\ model' = model]_vars

\* C8 witness: an end snapshot other than the start snapshot was accepted
C8_Witness ==
    /\ last.op = "set_end_snapshot"
    /\ last.err = "None"
    /\ model.state = SNAP_END
    /\ model.end_snapshot = last.snapshot
    /\ model.end_snapshot # model.start_snapshot

\* C9: set_report(r) returns exactly when state >= EndSnapshotSet; then
\* state = ReportSet, report = r, and current_key and both snapshots are
\* unchanged; otherwise it raises the precondition error and no field changes.
C9_Report ==
    [][last'.op = "set_report"
       => IF model.state >= SNAP_END
          THEN /\ last'.err = "None"
               /\ model' = [model EXCEPT !.state = REPORT,
                                         !.report = last'.report]
          ELSE /\ last'.err = "ValueError"
               /\ model' = model]_vars

\* C9 witness: a report was accepted in state EndSnapshotSet
C9_Witness ==
    /\ last.op = "set_report"
    /\ last.err = "None"
    /\ last.pre = SNAP_END
    /\ model.state = REPORT
    /\ model.report = last.report

\* C10: every snapshot the Model holds was fetched with the Model's
\* current_key.
C10_NoStaleSnapshot ==
    /\ model.start_snapshot # NoSnapshot
            => model.start_snapshot.key = model.current_key
    /\ model.end_snapshot # NoSnapshot
            => model.end_snapshot.key = model.current_key

\* C10 witness: after the key was changed under held snapshots, a snapshot of
\* the previous key was offered as end snapshot and refused
C10_Witness ==
    /\ last.op = "set_end_snapshot"
    /\ last.err = "ValueError"
    /\ last.snapshot.key # model.current_key
    /\ model.state >= SNAP_START
    /\ model.start_snapshot.key = model.current_key

(***************************************************************************)
(* Claims about the running application (checked under Spec)               *)
(***************************************************************************)
Saves(running) == Count(running, {"save"})

Held(running) == BagOfAll(LAMBDA t : [t EXCEPT !.dirty = FALSE], running)

\* C2: when a spawned task ends raising an error, every other task stays in
\* the nursery, the top-level scope is not cancelled, the guest run has not
\* crashed and done_callback is not invoked.
C2_CrashIsolated ==
    [][last'.exit = "raised"
        => /\ \E task \in BagToSet(tasks) :
                    /\ task.kind = last'.task
                    /\ Held(tasks (-) SetToBag({task})) \sqsubseteq Held(tasks')
           /\ guest'.cancel_called = guest.cancel_called
           /\ guest'.crashed = "None"
           /\ ~guest'.finished
           /\ done_calls' = done_calls]_vars

\* after a task crashed and was rescued, another task returned normally
\* while the top-level scope is still running
C2_Witness ==
    /\ guest.rescued
    /\ last.exit = "returned"
    /\ last.op \in ModelOps
    /\ ~guest.cancel_called
    /\ done_calls = 0

\* C3 as stated: done_callback is never invoked twice, and after every
\* close_app the Controller receives it is invoked.
C3_CloseCallsDoneOnce ==
    /\ [](done_calls <= 1)
    /\ (last.op = "close_app") ~> (done_calls = 1)

\* the part of C3 that holds: done_callback is never invoked twice, and it is
\* invoked after every close_app that found the nursery
C3_CloseAfterStarted ==
    /\ [](done_calls <= 1)
    /\ (last.op = "close_app" /\ last.err = "None") ~> (done_calls = 1)

\* C11: while a task that mutates the Model is in flight, from its spawn
\* to its last mutation, no other task mutates the Model: a task that
\* changes the Model finds that no other task has changed it since this
\* task was spawned.
C11_MutationsSequential ==
    [][(last'.op \in ModelOps /\ last'.err = "None" /\ model' # model)
        => \E task \in BagToSet(tasks) :
                /\ task.kind = last'.task
                /\ ~task.dirty
                /\ CopiesIn(task, tasks') < CopiesIn(task, tasks)]_vars

\* C12 as stated: a _compute_gains task that fails at a remote step leaves
\* the Model as it was before the task started, so the Model does not hold
\* the end snapshot this task fetched.
C12_FailureRestoresModel ==
    [][(last'.exit = "raised" /\ last'.err = "GW2APIError")
        => \A task \in BagToSet(tasks) :
                (/\ task.kind = last'.task
                 /\ task.pc \in {"items", "icons"}
                 /\ CopiesIn(task, tasks') < CopiesIn(task, tasks))
                    => model'.end_snapshot.datetime # task.inv_diff.end]_vars

\* C12 amended: a task that fails at a remote step leaves the Model as its
\* last completed transition left it: the failing step changes no field and
\* schedules no save.
C12_FailureLeavesModel ==
    [][(last'.exit = "raised" /\ last'.err = "GW2APIError")
        => /\ model' = model
           /\ Saves(tasks') = Saves(tasks)]_vars

\* a _compute_gains task has failed after it stored its end snapshot
C12_Witness ==
    /\ last.exit = "raised"
    /\ last.err = "GW2APIError"
    /\ last.task = "_compute_gains"
    /\ model.state = SNAP_END
    /\ model.end_snapshot.key = model.current_key

\* C13: when a task of a user intent meets an external failure (the key
\* lacks a permission, the API cannot be reached), the View shows the error
\* (TkView.display_error: the label turns red), and the top-level run is
\* neither crashed nor cancelled nor ended.
C13_FailureShown ==
    [][(/\ last'.task \in Intents
        /\ last'.err \in {"GW2APIError", "KeyPermissionError"})
        => /\ view'.message = "red"
           /\ guest'.crashed = "None"
           /\ guest'.cancel_called = guest.cancel_called
           /\ done_calls' = done_calls]_vars

\* C14: a use-key task that is not cancelled calls set_key exactly when the
\* validation succeeded; when it failed the error is shown and the Model is
\* unchanged; either way the key input, disabled as long as the task was in
\* flight, is enabled by the step that handles the outcome.
C14_UseKey ==
    /\ [](\A task \in BagToSet(tasks) :
                task.kind = "validate_key" => ~view.key_input)
    /\ [][\A task \in BagToSet(tasks) :
            \A out \in ApiOutcomes \cup {"KeyPermissionError"} :
                _use_key_callback(task, out)
                    => /\ view'.key_input
                       /\ IF out = "Value"
                          THEN /\ last'.op = "set_key"
                               /\ model' = set_key(model, task.key).model
                               /\ Saves(tasks') = Saves(tasks) + 1
                          ELSE /\ last'.op # "set_key"
                               /\ model' = model
                               /\ view'.message = "red"
                               /\ Saves(tasks') = Saves(tasks)]_vars

\* a validation has failed for lack of a permission: the error is shown, the
\* key input is enabled again and the Model still holds the previous key
C14_Witness ==
    /\ last.op = "display_error"
    /\ last.err = "KeyPermissionError"
    /\ view.key_input
    /\ view.message = "red"
    /\ model.state >= KEY
    /\ model.current_key # last.key

\* C16: as long as shutdown has not been requested the top-level scope does
\* not exit: host.done_callback has not been invoked and the guest run has
\* not ended, whatever tasks have returned or failed, and the step that
\* invokes done_callback is taken only after the request.
C16_NoExitWithoutShutdown ==
    /\ [](~guest.cancel_called => (done_calls = 0 /\ ~guest.finished))
    /\ [][done_calls' # done_calls => guest.cancel_called]_vars

\* a task has failed and was rescued, no spawned task remains, no shutdown
\* was requested: the run goes on, done_callback was not invoked
C16_Witness ==
    /\ guest.started
    /\ guest.rescued
    /\ last.exit = "returned"
    /\ Count(tasks, Intents \cup Helpers) = 0
    /\ ~guest.cancel_called
    /\ ~guest.finished
    /\ done_calls = 0

\* C17: once shutdown is requested every task in the top-level nursery
\* terminates and host.done_callback is then invoked; done_callback is
\* invoked only when no task is left; once it was invoked there is no task
\* and nothing changes the Model, its file or the View any more.
C17_ShutdownCancelsAll ==
    /\ guest.cancel_called ~> (tasks = EmptyBag /\ done_calls = 1)
    /\ [](done_calls >= 1 => tasks = EmptyBag)
    /\ [][done_calls' # done_calls => (tasks = EmptyBag /\ tasks' = tasks)]_vars
    /\ [][done_calls >= 1 => UNCHANGED <<model, file, view, tasks>>]_vars

\* shutdown was requested while _compute_gains, past set_end_snapshot, was
\* waiting for the API: the task has just ended by trio.Cancelled, other
\* tasks are still there and done_callback is not yet invoked
C17_Witness ==
    /\ guest.cancel_called
    /\ last.exit = "cancelled"
    /\ last.task = "_compute_gains"
    /\ model.state = SNAP_END
    /\ tasks # EmptyBag
    /\ done_calls = 0

\* C19: a Controller method that reaches TrioGuest.start_soon before _main
\* has run (started is false, the nursery does not exist) raises
\* AttributeError and schedules nothing: the nursery is empty until _main
\* runs and holds no task of an intent right after it.
C19_SpawnBeforeStartFails ==
    /\ [](~guest.started => tasks = EmptyBag)
    /\ [][(/\ ~guest.started
           /\ \/ last'.op = "use_key"
              \/ last'.op = "get_start_snapshot" /\ model.state >= KEY
              \/ last'.op = "compute_gains" /\ model.state >= SNAP_START)
            => (last'.err = "AttributeError" /\ tasks' = tasks)]_vars
    /\ [][(~guest.started /\ guest'.started)
            => Count(tasks', Intents \cup Helpers) = 0]_vars

\* the key button was clicked before the first tick of the guest run, the
\* spawn failed, and _main has now run: no task validates the key
C19_Witness ==
    /\ last.op = "_main"
    /\ guest.started
    /\ ~view.key_input
    /\ Count(tasks, Intents) = 0

(***************************************************************************)
(* Claims about the Controller's methods (checked under SpecController)    *)
(***************************************************************************)
\* C15: Controller.get_start_snapshot called while the Model's state is below
\* KeySet, and Controller.compute_gains called while it is below
\* StartSnapshotSet, spawn no task (so nothing is fetched) and leave the
\* Model and its file unchanged.
C15_IntentsGated ==
    [][/\ (last'.op = "get_start_snapshot" /\ model.state < KEY)
            => (tasks' = tasks /\ model' = model /\ file' = file)
       /\ (last'.op = "compute_gains" /\ model.state < SNAP_START)
            => (tasks' = tasks /\ model' = model /\ file' = file)]_vars

\* a start snapshot was asked for before any key, while the guest run was
\* ready to take a task: only the sleep_forever task is there
C15_Witness ==
    /\ last.op = "get_start_snapshot"
    /\ last.pre = STARTED
    /\ model = FreshModel
    /\ SpawnErr = "None"
    /\ Count(tasks, Intents) = 0

\* C18: Controller.start_trio_guest called while a host is already set,
\* before or after _main has run, raises RuntimeError and starts no guest
\* run: the TrioGuest, its nursery's tasks, the Model and the View are as
\* they were, and there is never more than one guest run.
C18_SecondAttachRefused ==
    /\ [](guest.runs <= 1)
    /\ [][(last'.op = "start_trio_guest" /\ guest.host # "None")
            => /\ last'.err = "RuntimeError"
               /\ guest' = guest
               /\ UNCHANGED <<model, file, tasks, done_calls, view>>]_vars

\* a second attach was refused while the first run had tasks of the user's
\* intents in flight
C18_Witness ==
    /\ last.op = "start_trio_guest"
    /\ last.err = "RuntimeError"
    /\ guest.started
    /\ guest.runs = 1
    /\ Count(tasks, Intents) > 0

(***************************************************************************)
(* Claims about utils.gather (checked under SpecGather)                    *)
(***************************************************************************)
\* C20: gather returns only once each of its N awaitables has completed, and
\* the tuple it returns holds at place i the result of its i-th argument,
\* whatever the order of completion; with no argument it returns the empty
\* tuple.
C20_GatherKeepsOrder ==
    gathering.pc = "returned"
        => /\ gathering.pending = {}
           /\ Len(gathering.order) = Len(gathering.tasks)
           /\ {gathering.order[k] : k \in 1..Len(gathering.order)}
                = 1..Len(gathering.tasks)
           /\ Len(gathering.out) = Len(gathering.tasks)
           /\ \A index \in 1..Len(gathering.tasks) :
                    gathering.out[index] = gathering.tasks[index]
           /\ gathering.tasks = << >> => gathering.out = << >>

\* three awaitables with different results completed last first, and gather
\* has returned
C20_Witness ==
    /\ gathering.pc = "returned"
    /\ gathering.tasks = <<"v1", "v2", "v3">>
    /\ gathering.order = <<3, 1, 2>>
    /\ gathering.out = <<"v1", "v2", "v3">>

\* C21: once one of the awaitables has failed, gather never returns a
\* tuple; the collect tasks still waiting are cancelled; and when gather has
\* raised, no collect task is left, every task has ended by its result, by
\* an error or by cancellation, and the first failure is among the errors
\* raised.
C21_GatherFailurePropagates ==
    /\ gathering.failed # {}
            => /\ gathering.pc \in {"cancelling", "raised"}
               /\ gathering.out = << >>
    /\ gathering.pc = "raised"
            => /\ gathering.pending = {}
               /\ gathering.error \in gathering.failed
               /\ gathering.failed \cup gathering.cancelled
                    \cup {gathering.order[k] : k \in 1..Len(gathering.order)}
                        = 1..Len(gathering.tasks)

\* the second of three awaitables failed after the first had completed and
\* the third was cancelled: gather has raised, with a list of results filled
\* in part that it did not return
C21_Witness ==
    /\ gathering.pc = "raised"
    /\ Len(gathering.tasks) = 3
    /\ gathering.order = <<1>>
    /\ gathering.error = 2
    /\ gathering.cancelled = {3}
    /\ gathering.results[1] # typing_Any
    /\ gathering.out = << >>

(***************************************************************************)
(* Claims about models.Inventory (checked under SpecInventory)             *)
(***************************************************************************)
\* C22: for all Inventories a and b, (a + b) - b equals a, also when a key's
\* sum is zero and the key is dropped from a + b; and a + Inventory() equals
\* a.
C22_AddThenSubtract ==
    /\ data.pc \in {"added", "back"} => data.same = data.a
    /\ data.pc = "back" => data.back = data.a

\* a key of a whose amount b cancels is absent from the sum and back in the
\* difference, beside a key that only b holds
C22_Witness ==
    /\ data.pc = "back"
    /\ DOMAIN data.a = {"i1"}
    /\ DOMAIN data.b = {"i1", "i2"}
    /\ DOMAIN data.sum = {"i2"}
    /\ data.back = data.a

\* C23: no Inventory holds a zero amount: the Inventories built from any
\* mapping, deserialized, added or subtracted map each of their keys to a
\* non-zero integer, and the keys whose sum (difference) is 0 are absent
\* from the sum (difference).
C23_NoZeroAmount ==
    /\ data.pc \in {"built", "added", "back"}
            => \A inv \in {data.a, data.b} : \A k \in DOMAIN inv : inv[k] # 0
    /\ data.pc \in {"added", "back"}
            => /\ \A inv \in {data.sum, data.diff, data.same} :
                        \A k \in DOMAIN inv : inv[k] # 0
               /\ \A k \in ItemIDs :
                    /\ get(data.a, k, 0) + get(data.b, k, 0) = 0
                            => k \notin DOMAIN data.sum
                    /\ get(data.a, k, 0) - get(data.b, k, 0) = 0
                            => k \notin DOMAIN data.diff
    /\ data.pc = "back"
            => \A k \in DOMAIN data.back : data.back[k] # 0

\* two Inventories built from mappings without zero, whose sum drops the
\* key i1 and whose difference drops the key i2
C23_Witness ==
    /\ data.pc = "added"
    /\ DOMAIN data.a = {"i1", "i2"}
    /\ DOMAIN data.b = {"i1", "i2"}
    /\ DOMAIN data.sum = {"i2"}
    /\ DOMAIN data.diff = {"i1"}

(***************************************************************************)
(* Claims about serialization (checked under SpecSerial)                   *)
(***************************************************************************)
\* C24: an Inventory and a Snapshot deserialized from their own
\* serialization, through to_json / from_json or through a file, are equal to
\* the original.
C24_RoundTrip ==
    data.pc = "loaded"
        => /\ data.inv_back = data.snap.inventory
           /\ Snapshot_eq(data.snap_back, data.snap)

\* a Snapshot with a name, two different non-empty Inventories and a local
\* time ahead of UTC has come back from a file, its datetime now in a
\* fixed-offset timezone
C24_Witness ==
    /\ data.pc = "loaded"
    /\ data.through = "file"
    /\ data.snap.datetime.offset # 0
    /\ data.snap_back.datetime.tz = "fixed"
    /\ data.snap.name # None
    /\ DOMAIN data.snap.inventory = ItemIDs
    /\ DOMAIN data.snap.wallet = {"i1"}
    /\ Snapshot_eq(data.snap_back, data.snap)

(***************************************************************************)
(* Claims about Reports (checked under SpecReport)                         *)
(***************************************************************************)
\* C25: a valid Report deserialized from its own serialization,
\* Report.from_json(r.to_json()), is a Report equal to r.
C25_ReportRoundTrip ==
    data.pc = "loaded"
        => /\ data.back.type = "Report"
           /\ Report_eq(data.back, data.report)

\* what the code does: the round trip of a Report succeeds exactly when the
\* Report has no item details at all, because the serialization of each item
\* detail carries the icon_path key that ItemDetail.from_json rejects
C25_OnlyWithoutDetails ==
    data.pc = "loaded"
        => IF DOMAIN data.report.item_details = {}
           THEN data.back.type = "Report" /\ Report_eq(data.back, data.report)
           ELSE data.back.type = "ValueError"

(***************************************************************************)
(* Claims about the state file (checked under SpecStateFile)               *)
\* C28: with the fee of 0.15, the black lion value of an item is the integer
\* part of 0.85 x lowest_sell when there is a sell offer, else of
\* 0.85 x highest_buy when there is a buy offer, else absent; value_slow is
\* the larger of that value (0 when absent) and vendor_value; value is
\* value_slow. Offers 100 / 120 with vendor value 10 give 102, a buy offer of
\* 100 alone gives 85, no offer and vendor value 50 give 50.
C28_Valuation ==
    data.pc = "valued"
        => \A k \in DOMAIN data.report.item_details :
            LET d == data.report.item_details[k]
                liquid == IF d.lowest_sell # None
                          THEN Some((85 * d.lowest_sell[1]) \div 100)
                          ELSE IF d.highest_buy # None
                          THEN Some((85 * d.highest_buy[1]) \div 100)
                          ELSE None
                liquid_or_0 == IF liquid = None THEN 0 ELSE liquid[1]
            IN  /\ data.black_lion[k] = liquid
                /\ data.slow[k] = IF liquid_or_0 >= d.vendor_value
                                  THEN liquid_or_0 ELSE d.vendor_value
                /\ data.value[k] = data.slow[k]
                /\ (d.highest_buy = Some(100) /\ d.lowest_sell = Some(120)
                    /\ d.vendor_value = 10) => data.value[k] = 102
                /\ (d.highest_buy = Some(100) /\ d.lowest_sell = None
                    /\ d.vendor_value = 10) => data.value[k] = 85
                /\ (d.highest_buy = None /\ d.lowest_sell = None
                    /\ d.vendor_value = 50) => data.value[k] = 50

\* a Report was valued whose first item has both offers (worth 102, the sell
\* offer less the fee) and whose second has a sell offer of 7, worth 5 after
\* the fee rounded down, less than its vendor value
C28_Witness ==
    /\ data.pc = "valued"
    /\ DOMAIN data.report.item_details = ItemIDs
    /\ data.report.item_details["i1"].highest_buy = Some(100)
    /\ data.report.item_details["i1"].lowest_sell = Some(120)
    /\ data.value["i1"] = 102
    /\ data.report.item_details["i2"].lowest_sell = Some(7)
    /\ data.black_lion["i2"] = Some(5)
    /\ data.value["i2"] = 10

\* C33: the value of an ItemDetail is the highest value at the black lion or
\* at the vendor: at least vendor_value, at least value_fast, and at least
\* every offer that is present less the fee, also when the sell offer is
\* lower than the buy offer.
C33_HighestValue ==
    data.pc = "valued"
        => \A k \in DOMAIN data.report.item_details :
            LET d == data.report.item_details[k]
            IN  /\ data.value[k] >= d.vendor_value
                /\ data.value[k] >= data.fast[k]
                /\ d.highest_buy # None
                    => data.value[k] >= (85 * d.highest_buy[1]) \div 100
                /\ d.lowest_sell # None
                    => data.value[k] >= (85 * d.lowest_sell[1]) \div 100

\* what the code does: the value is at least vendor_value and at least the
\* sell offer less the fee; a buy offer counts only when there is no sell
\* offer, so the value is below value_fast exactly when a sell offer is
\* present whose worth after the fee is below that of the buy offer and
\* the latter is above everything else
C33_SellOfferFirst ==
    data.pc = "valued"
        => \A k \in DOMAIN data.report.item_details :
            LET d == data.report.item_details[k]
                buy == IF d.highest_buy = None THEN 0
                       ELSE (85 * d.highest_buy[1]) \div 100
                sell == IF d.lowest_sell = None THEN 0
                        ELSE (85 * d.lowest_sell[1]) \div 100
            IN  /\ data.value[k] >= d.vendor_value
                /\ data.value[k] >= sell
                /\ d.lowest_sell = None => data.value[k] >= buy
                /\ data.value[k] < data.fast[k]
                    <=> /\ d.lowest_sell # None
                        /\ buy > sell
                        /\ buy > d.vendor_value

\* C29: item_gains is the sum over the inventory difference of count x value
\* of the item's detail, lost items counting negatively; coins is the wallet
\* difference at the coin id, 0 when it is absent; total_gains is their sum.
\* 3 and 2 items valued 10 and 20 with 500 coins give 70 and 570.
C29_Gains ==
    data.pc = "valued"
        => LET r == data.report
               gain(k) == IF k \in DOMAIN r.inv_diff
                          THEN r.inv_diff[k] * data.value[k] ELSE 0
           IN  /\ data.item_gains = gain("i1") + gain("i2")
               /\ data.coins = IF _COIN_ID \in DOMAIN r.wallet_diff
                               THEN r.wallet_diff[_COIN_ID] ELSE 0
               /\ data.total_gains = data.coins + data.item_gains
               /\ (/\ DOMAIN r.inv_diff = ItemIDs
                   /\ r.inv_diff["i1"] = 3 /\ r.inv_diff["i2"] = 2
                   /\ data.value["i1"] = 10 /\ data.value["i2"] = 20
                   /\ data.coins = 500)
                    => data.item_gains = 70 /\ data.total_gains = 570

\* a Report was valued with one item gained and one lost, the loss larger
\* than the gain, and no coin difference although another currency changed
C29_Witness ==
    /\ data.pc = "valued"
    /\ DOMAIN data.report.inv_diff = ItemIDs
    /\ data.report.inv_diff["i1"] > 0
    /\ data.report.inv_diff["i2"] < 0
    /\ data.item_gains < 0
    /\ DOMAIN data.report.wallet_diff = {"i2"}
    /\ data.coins = 0
    /\ data.total_gains = data.item_gains

\* C30: the construction of a Report fails when a key of inv_diff has no
\* entry in item_details, so every Report has an item detail for every key of
\* its inv_diff.
C30_ReportIntegrity ==
    data.pc = "report"
        => /\ data.report.type = "Report"
                => DOMAIN data.report.inv_diff
                       \subseteq DOMAIN data.report.item_details
           /\ ~(DOMAIN data.inv_diff \subseteq DOMAIN data.item_details)
                => data.report.type = "ValueError"
           /\ DOMAIN data.inv_diff \subseteq DOMAIN data.item_details
                => data.report.type = "Report"

\* the construction of a Report failed: its inv_diff had two keys and there
\* was a detail for one of them only
C30_Witness ==
    /\ data.pc = "report"
    /\ DOMAIN data.inv_diff = ItemIDs
    /\ DOMAIN data.item_details = {"i1"}
    /\ data.report.type = "ValueError"

(***************************************************************************)
\* C26: for every Model reachable through the transitions, in each of the
\* states KEY, SNAP_START, SNAP_END and REPORT, Model.from_file of the file
\* its save wrote returns a Model with the same state, current key, start
\* snapshot, end snapshot and report.
C26_ModelRestored ==
    (data.pc = "started" /\ data.saved # "never")
        => /\ data.saved = "None"
           /\ data.loaded.type = "Model"
           /\ SameFields(data.loaded, data.m)

\* what the code does: the save raises TypeError when an item detail of the
\* report has an icon; otherwise Model.from_file returns, with the state and
\* the key of the saved Model, and with every snapshot and the report left as
\* the JSON objects of the file, so that the Model is restored only in the
\* state KEY
C26_RestoredOnlyInKeyState ==
    (data.pc = "started" /\ data.saved # "never")
        => IF data.saved = "TypeError"
           THEN data.m.state = REPORT /\ data.loaded.type = "ValueError"
           ELSE /\ data.loaded.type = "Model"
                /\ data.loaded.state = data.m.state
                /\ data.loaded.current_key = data.m.current_key
                /\ SameFields(data.loaded, data.m) <=> data.m.state = KEY
                /\ data.m.state >= SNAP_START
                    => data.loaded.start_snapshot[1].type = "dict"

\* C27: at start-up, when the state file is absent or Model.from_file raises
\* (text that is not JSON, a document that cannot be deserialized), the
\* application has a fresh Model on the same path: state STARTED, no key, no
\* snapshot, no report.
C27_StartsFresh ==
    (data.pc = "started"
     /\ (data.file.type = "absent" \/ data.loaded.type # "Model"))
        => data.model = Model_fresh(model_file)

\* the application restarted on the file a failed save had left truncated,
\* and has a fresh Model although it had reached REPORT
C27_Witness ==
    /\ data.pc = "started"
    /\ data.saved = "TypeError"
    /\ data.m.state = REPORT
    /\ data.loaded.type = "ValueError"
    /\ data.model = Model_fresh(model_file)

(***************************************************************************)
(* Claims about the tasks of the application (checked under Spec)          *)
(***************************************************************************)
\* C31: at any moment at most one key-validation task is in flight, and
\* while one is in flight the key input is disabled.
C31_OneValidation ==
    /\ Count(tasks, {"validate_key"}) <= 1
    /\ Count(tasks, {"validate_key"}) = 1 => ~view.key_input

\* a second validation is in flight, requested after the outcome of a first
\* one was handled, next to a task of another intent
C31_Witness ==
    /\ Count(tasks, {"validate_key"}) = 1
    /\ Count(tasks, Intents) = 2
    /\ model.state >= KEY
    /\ ~view.key_input

\* C36: under every interleaving of the tasks, whenever the Model is in
\* REPORT its report is the one computed from the snapshots it holds: the
\* differences are those between its end and its start snapshot, and the
\* dates of the report are the datetimes of these two snapshots.
C36_ReportOfHeldSnapshots ==
    model.state = REPORT
        => /\ model.report.inv_diff
                = Diff(model.start_snapshot, model.end_snapshot)
           /\ model.report.start_date = model.start_snapshot.datetime
           /\ model.report.end_date = model.end_snapshot.datetime

\* what the code does: the dates of a report just stored are those of the
\* snapshots the Model holds at that moment, while its differences are those
\* a task computed right after its own set_end_snapshot, whatever the end
\* snapshot the Model holds since
C36_ReportOfOwnSnapshot ==
    [][(last'.op = "set_report" /\ last'.err = "None")
        => /\ model'.report.start_date = model.start_snapshot.datetime
           /\ model'.report.end_date = model.end_snapshot.datetime
           /\ \E task \in BagToSet(tasks) :
                /\ task.kind = "_compute_gains"
                /\ task.pc = "icons"
                /\ model'.report.inv_diff = task.inv_diff]_vars

(***************************************************************************)
(* Claims about the Cache (checked under SpecCache)                        *)
(***************************************************************************)
\* C32: after Cache.ensure_icons(item_data) returned, get_image gives a path
\* for every id of item_data, also when several missing ids have the same
\* icon URL; the entries cached before were not downloaded and have not
\* changed.
C32_EveryIconPresent ==
    data.pc = "returned"
        => /\ \A k \in DOMAIN data.item_data :
                get_image(data.images, k) # None
           /\ \A k \in DOMAIN data.before :
                /\ get_image(data.images, k) = Some(data.before[k])
                /\ \A url \in DOMAIN data.urls : data.urls[url] # k

\* what the code does: the cached entries are left alone, and of the missing
\* ids exactly one per icon URL gets its image, so that every id of item_data
\* has one only when the missing ids have different URLs
C32_OneIconPerURL ==
    data.pc = "returned"
        => LET missing == DOMAIN data.item_data \ DOMAIN data.before
               got == DOMAIN data.images \ DOMAIN data.before
           IN  /\ \A k \in DOMAIN data.before :
                    /\ get_image(data.images, k) = Some(data.before[k])
                    /\ \A url \in DOMAIN data.urls : data.urls[url] # k
               /\ got \subseteq missing
               /\ \A url \in {data.item_data[k] : k \in missing} :
                    Cardinality({k \in got : data.item_data[k] = url}) = 1
               /\ got = missing
                    <=> \A k1, k2 \in missing :
                            data.item_data[k1] = data.item_data[k2] => k1 = k2

(***************************************************************************)
(* Claims about the fields of the Model (checked under SpecModel)          *)
(***************************************************************************)
\* C34: in every Model reachable from a fresh one by the four transitions,
\* state >= KEY implies a current key, state >= SNAP_START a start snapshot,
\* state >= SNAP_END an end snapshot and state = REPORT a report.
C34_StateImpliesData ==
    /\ model.state >= KEY => model.current_key # NoKey
    /\ model.state >= SNAP_START => model.start_snapshot # NoSnapshot
    /\ model.state >= SNAP_END => model.end_snapshot # NoSnapshot
    /\ model.state = REPORT => model.report # NoReport

\* set_report has just brought the Model to REPORT, with a key, two
\* snapshots and the report
C34_Witness ==
    /\ last.op = "set_report"
    /\ last.err = "None"
    /\ model.state = REPORT
    /\ model.current_key # NoKey
    /\ model.start_snapshot # NoSnapshot
    /\ model.end_snapshot # NoSnapshot
    /\ model.report = last.report

\* C35: the Model holds a report only in state REPORT and an end snapshot
\* only in a state >= SNAP_END; set_end_snapshot in state REPORT does not
\* leave the previous report held.
C35_NoStaleReport ==
    /\ model.report # NoReport => model.state = REPORT
    /\ model.end_snapshot # NoSnapshot => model.state >= SNAP_END

\* what the code does: an end snapshot is held only in a state >= SNAP_END
\* and a report only in a state >= SNAP_END; set_end_snapshot, which changes
\* neither the start snapshot nor the report, leaves in SNAP_END the report
\* the Model held in REPORT
C35_ReportKeptByEndSnapshot ==
    /\ model.end_snapshot # NoSnapshot => model.state >= SNAP_END
    /\ model.report # NoReport => model.state >= SNAP_END
    /\ (last.op = "set_end_snapshot" /\ last.err = "None"
        /\ last.pre = REPORT)
            => model.state = SNAP_END /\ model.report # NoReport

(***************************************************************************)
(* Claims about the controls of the View (checked under FairSpec and Spec) *)
(***************************************************************************)
\* C38: after a capture-start or compute-gains task has ended, by returning
\* or by raising, the button that triggered it is enabled again at some
\* point, unless the Model's state no longer permits the action (or the
\* application is shutting down); the user need not do anything for it.
C38_RetryEnabled ==
    /\ (last.task = "_get_start_snapshot"
            /\ last.exit \in {"returned", "raised"})
        ~> (view.button_start \/ model.state < KEY \/ guest.cancel_called)
    /\ (last.task = "_compute_gains" /\ last.exit \in {"returned", "raised"})
        ~> (view.button_stop \/ model.state < SNAP_START
                \/ guest.cancel_called)

\* what the code does: a capture-start task that returns enables its button
\* in its last step, whenever the Model holds a key
C38_StartEnabledOnReturn ==
    [][(last'.task = "_get_start_snapshot" /\ last'.exit = "returned")
        => (view'.button_start \/ model'.state < KEY)]_vars

(***************************************************************************)
(* Claims about the order of the saves (checked under SpecSchedule)        *)
(***************************************************************************)
\* C37: saves take effect in the order of the transitions that scheduled
\* them: once every scheduled save has run and nothing is runnable, the
\* state file holds the Model's current fields, for every order in which the
\* run loop takes the spawned tasks.
C37_FileFollowsModel ==
    (data.runq = << >> /\ data.batch = << >>) => file = <<model>>

\* what the code does: the save of a transition never replaces the save of
\* a transition called in a later tick; the saves of two transitions called
\* in the same tick are written in either order
C37_LaterTicksWin == [][data'.written >= data.written]_vars

(***************************************************************************)
(* Claims about the fetched inventory (checked under SpecSlots)            *)
(***************************************************************************)
\* the slots of the bags, one bag after the other
RECURSIVE BagSlots(_)
BagSlots(bags) ==
    IF bags = << >> THEN << >>
    ELSE (IF Head(bags) = None THEN << >> ELSE Head(bags)[1].inventory)
            \o BagSlots(Tail(bags))

\* every non-empty slot of every source
AllSlots ==
    filter_None(data.account \o data.bank \o data.materials
                    \o BagSlots(data.bags))

\* the counts of the slots that hold the item, added up
RECURSIVE CountOf(_, _)
CountOf(item_id, slots) ==
    IF slots = << >> THEN 0
    ELSE CountOf(item_id, Tail(slots))
            + IF Head(slots)[1].id = item_id THEN Head(slots)[1].count ELSE 0

\* some source, or some bag, holds the same item in two of its slots
Repeated(slots) ==
    \E i, j \in DOMAIN slots :
        /\ i < j
        /\ slots[i] # None
        /\ slots[j] # None
        /\ slots[i][1].id = slots[j][1].id

\* C39: the inventory of a fetched Snapshot maps every item to the sum of
\* the counts of the non-empty slots that hold it, across all the sources,
\* also when an item is in several slots of one source; an item whose
\* total is 0 is absent.
C39_InventorySumsSlots ==
    data.pc = "done"
        => data.inventory
            = Inventory([k \in ItemIDs |-> CountOf(k, AllSlots)])

\* what the code does: the sum is right when no source holds an item in two
\* slots and no slot has charges
C39_SumsDistinctSlots ==
    (/\ data.pc = "done"
     /\ ~Repeated(data.account)
     /\ \A i \in DOMAIN AllSlots : "charges" \notin DOMAIN AllSlots[i][1])
        => data.inventory
            = Inventory([k \in ItemIDs |-> CountOf(k, AllSlots)])

====
